---- MODULE Spec2Model ----
(***************************************************************************)
(* Campus pedestrian routing: the routing engine (graph tables, snapping,  *)
(* Dijkstra search, route computation) and the live-position filter of the *)
(* components LocationWatcher and LocationMapper.                          *)
(*                                                                         *)
(* Representation.                                                         *)
(*  - A JavaScript object is a sequence of <<key, value>> pairs with       *)
(*    distinct keys, in insertion order (the order Object.keys,            *)
(*    Object.entries and for..of over a Set of the keys enumerate).        *)
(*  - Numbers are fixed point.  Latitude and longitude are integers in a   *)
(*    unit of arc that is 0.1 m long on the ground, near the equator       *)
(*    (cos(refLat) = 1).  Distances in metres carry two decimals: they are *)
(*    integers counting centimetres.                                       *)
(*  - The JavaScript values undefined, null and Infinity are the constants *)
(*    Undefined, Null and Infinity below.                                  *)
(***************************************************************************)
EXTENDS Integers, Sequences, FiniteSets, TLC

\* nodes, edges, buildingEntrance, buildingExit, buildingPolygons: the module
\* level tables of routing/graph.js and of the map data; call: the last call
\* made into the routing engine, with its arguments, locals and outcome;
\* previous: what the call before it returned, kept when both are computeRoute
\* calls with the same arguments
VARIABLES nodes, edges, buildingEntrance, buildingExit, buildingPolygons, call,
          previous

\* The position tracker (components LocationWatcher and LocationMapper):
\* component: which of the two components is mounted
\* mounted: the component is mounted (its effect has run, its cleanup has not)
\* props: the filter parameters accuracyMax, staleMs, ema, jumpGuard passed in
\* pos, acc: the React state of the component that the filter uses
\* lastRawRef, watchIdRef, retryTimeoutRef: the .current of its refs
\* watches: the watches registered with navigator.geolocation and not
\*   cleared, each with the scope (pos, props) its callbacks closed over
\* timers: the pending setTimeout timers, each with the scope of its callback
\* lastWatchId, lastTimerId: the last ids the browser handed out
\* now: Date.now()
\* fix: what the handler that ran last saw and did
\* session: the number of the tracking session (effect run) and whether a
\*   sample was accepted in it
\* status: the React state status of LocationMapper
\* view: what the last render of the component returned
\* lastAcceptedAt: Date.now() when a sample was last accepted, 0 before
\* debugInfo, currentMapping, mappingHistory: the React state of
\*   LocationMapper of these names
VARIABLES component, mounted, props, pos, acc, lastRawRef, watchIdRef,
          retryTimeoutRef, watches, timers, lastWatchId, lastTimerId, now, fix,
          session, status, view, lastAcceptedAt, debugInfo, currentMapping,
          mappingHistory

\* The screens with timers of their own:
\* enhancedNavigator: the React state of the component EnhancedNavigator and
\*   the interval its navigation effect keeps
\* pathTester: the React state and the refs of the component PathTester and
\*   the intervals it has set and not cleared
VARIABLES enhancedNavigator, pathTester

routingVars ==
  <<nodes, edges, buildingEntrance, buildingExit, buildingPolygons, call, previous>>
trackerVars ==
  <<component, mounted, props, pos, acc, lastRawRef, watchIdRef,
    retryTimeoutRef, watches, timers, lastWatchId, lastTimerId, now, fix, session,
    status, view, lastAcceptedAt, debugInfo, currentMapping, mappingHistory>>
screenVars == <<enhancedNavigator, pathTester>>
vars == <<routingVars, trackerVars, screenVars>>

\* ------------------------------------------------------------------------
\* Bounds of the model
\* ------------------------------------------------------------------------
\* largest edge weight of the graphs the search is run on in SpecDijkstra
MaxWeight == 2
\* number of distinct values the timestamp+random suffix of a virtual node
\* id can take
NumStamps == 2
\* number of watch ids the browser hands out to the tracker
MaxWatches == 2
\* number of timer ids the browser hands out to the tracker
MaxTimers == 1
\* number of seconds the clock advances while the source stays away
MaxSeconds == 6

\* ------------------------------------------------------------------------
\* JavaScript values and objects
\* ------------------------------------------------------------------------
Undefined == "undefined"
Null == "null"
Infinity == 1000000000

Keys(o) == [i \in 1..Len(o) |-> o[i][1]]
KeySet(o) == {o[i][1] : i \in 1..Len(o)}
Has(o, k) == k \in KeySet(o)
Get(o, k) == o[CHOOSE i \in 1..Len(o) : o[i][1] = k][2]
\* o[k] = v : an existing key keeps its position, a new key goes last
Put(o, k, v) ==
  IF Has(o, k)
    THEN [i \in 1..Len(o) |-> IF o[i][1] = k THEN <<k, v>> ELSE o[i]]
    ELSE Append(o, <<k, v>>)

Reverse(s) == [i \in 1..Len(s) |-> s[Len(s) + 1 - i]]
SeqSet(s) == {s[i] : i \in 1..Len(s)}

\* ------------------------------------------------------------------------
\* dijkstra(edges, start, goal)                       utils/geo.js 36-65
\* ------------------------------------------------------------------------
\* the same scan without best = dist[n]
RECURSIVE SelectMinBestNotUpdated(_, _, _, _, _)
SelectMinBestNotUpdated(pq, dist, i, u, best) ==
  IF i > Len(pq) THEN u
  ELSE IF dist[pq[i]] < best
         THEN SelectMinBestNotUpdated(pq, dist, i + 1, pq[i], best)
         ELSE SelectMinBestNotUpdated(pq, dist, i + 1, u, best)

\* for (const n of pq) if (dist[n] < best) { best = dist[n]; u = n; }
RECURSIVE SelectMin(_, _, _, _, _)
SelectMin(pq, dist, i, u, best) ==
  IF i > Len(pq) THEN u
  ELSE IF dist[pq[i]] < best
         THEN SelectMin(pq, dist, i + 1, pq[i], dist[pq[i]])
         ELSE SelectMin(pq, dist, i + 1, u, best)

\* pq.delete(u)
Delete(pq, u) == SelectSeq(pq, LAMBDA n : n # u)

\* the neighbours v of u that the inner loop improves:
\* not visited, and alt = dist[u] + w < dist[v] (false when dist[v] is
\* undefined, that is when v is no key of edges and is not start)
Improved(graph, dist, visited, u) ==
  IF Has(graph, u)
    THEN {v \in KeySet(Get(graph, u)) :
            /\ v \notin visited
            /\ v \in DOMAIN dist
            /\ dist[u] + Get(Get(graph, u), v) < dist[v]}
    ELSE {}

\* prev[v] = u outside the if: for every unvisited neighbour with a distance
PrevSetEveryNeighbour(graph, dist, visited, u) ==
  IF Has(graph, u)
    THEN {v \in KeySet(Get(graph, u)) : v \notin visited /\ v \in DOMAIN dist}
    ELSE {}
\* prev[v] = u on alt <= dist[v], visited neighbours included
PrevSetRevisiting(graph, dist, visited, u) ==
  IF Has(graph, u)
    THEN {v \in KeySet(Get(graph, u)) :
            v \in DOMAIN dist /\ dist[u] + Get(Get(graph, u), v) <= dist[v]}
    ELSE {}
\* the neighbours v that get prev[v] = u: those of the same if statement
PrevSet(graph, dist, visited, u) == Improved(graph, dist, visited, u)

\* the while (pq.size) loop; yields the final dist and prev
RECURSIVE SearchLoop(_, _, _, _, _, _)
SearchLoop(graph, goal, dist, prev, visited, pq) ==
  IF Len(pq) = 0 THEN [dist |-> dist, prev |-> prev]
  ELSE
    LET u == SelectMin(pq, dist, 1, Null, Infinity) IN
    IF u = Null THEN [dist |-> dist, prev |-> prev]
    ELSE IF u = goal THEN [dist |-> dist, prev |-> prev]
    ELSE
      LET imp == Improved(graph, dist, visited, u)
          pre == PrevSet(graph, dist, visited, u)
          w(v) == Get(Get(graph, u), v)
          dist2 == [v \in DOMAIN dist |->
                      IF v \in imp THEN dist[u] + w(v) ELSE dist[v]]
          prev2 == [v \in DOMAIN prev \cup pre |->
                      IF v \in pre THEN u ELSE prev[v]]
      IN SearchLoop(graph, goal, dist2, prev2, visited \cup {u}, Delete(pq, u))

\* while (cur !== start) { cur = prev[cur]; path.push(cur); }
\* prev[cur] of a node without predecessor is undefined; the loop then never
\* ends unless start is undefined as well.  fuel bounds the unrolling.
RECURSIVE Reconstruct(_, _, _, _, _)
Reconstruct(prev, start, cur, path, fuel) ==
  IF cur = start THEN [path |-> path, diverged |-> FALSE]
  ELSE IF fuel = 0 THEN [path |-> path, diverged |-> TRUE]
  ELSE
    LET nxt == IF cur \in DOMAIN prev THEN prev[cur] ELSE Undefined
    IN Reconstruct(prev, start, nxt, Append(path, nxt), fuel - 1)

\* if (!prev[goal] && start !== goal) return { path: [], distance: Infinity }
NoPredecessorOnly(prev, start, goal) == goal \notin DOMAIN prev
NoPredecessor(prev, start, goal) == goal \notin DOMAIN prev /\ start # goal

\* path.reverse()
KeepPathOrder(path) == path
ReversePath(path) == Reverse(path)

\* const dist = {}; for (const k of Object.keys(graph)) dist[k] = Infinity;
\* dist[start] = 0
InitialDist(graph, start) ==
  [k \in KeySet(graph) \cup {start} |-> IF k = start THEN 0 ELSE Infinity]

\* what dijkstra returns once the loop has ended with fin.dist and fin.prev;
\* n is the number of keys of the graph
Finish(fin, start, goal, n) ==
  IF NoPredecessor(fin.prev, start, goal)
    THEN [path |-> << >>, distance |-> Infinity, diverged |-> FALSE]
    ELSE
      LET rec == Reconstruct(fin.prev, start, goal, <<goal>>, n + 2)
      IN [path |-> ReversePath(rec.path),
          distance |-> fin.dist[goal],
          diverged |-> rec.diverged]

Dijkstra(graph, start, goal) ==
  LET keys == Keys(graph)
      fin == SearchLoop(graph, goal, InitialDist(graph, start), << >>, {}, keys)
  IN Finish(fin, start, goal, Len(keys))

\* ------------------------------------------------------------------------
\* Geometry                                            utils/geo.js 1-33
\* ------------------------------------------------------------------------
\* centimetres per metre: the two decimals distances carry
CmPerMeter == 100
\* centimetres of ground per unit of latitude / longitude
CmPerUnit == 10
\* units of the local XY frame per unit of latitude / longitude
\* (toRad(1) * R, with cos(refLat) = 1)
XYScale == 2
\* nodes[id] of an id the node table does not hold
UndefinedCoord == [lat |-> -1, lng |-> -1]

RECURSIVE IsqrtBetween(_, _, _)
IsqrtBetween(n, lo, hi) ==
  IF lo = hi THEN lo
  ELSE LET mid == (lo + hi + 1) \div 2
       IN IF mid * mid <= n THEN IsqrtBetween(n, mid, hi)
                            ELSE IsqrtBetween(n, lo, mid - 1)
\* Math.sqrt, rounded to the nearest integer
Sqrt(n) ==
  LET r == IsqrtBetween(n, 0, 46340)
  IN IF n - r * r > r THEN r + 1 ELSE r

\* n / d rounded to the nearest integer (d > 0)
RoundDiv(n, d) == (2 * n + d) \div (2 * d)

\* haversineMeters(a, b): over the short spans of the model the great-circle
\* distance is the Euclidean one; the result is in centimetres
HaversineMeters(a, b) ==
  LET dLat == b.lat - a.lat
      dLng == b.lng - a.lng
  IN Sqrt(CmPerUnit * CmPerUnit * (dLat * dLat + dLng * dLng))

\* toXY(lat, lng, refLat)
ToXY(lat, lng, refLat) == [x |-> lng * XYScale, y |-> lat * XYScale]

\* xyToLatLng(x, y, refLat)                          routing/snap.js 59-64
XyToLatLng(x, y, refLat) ==
  [lat |-> RoundDiv(y, XYScale), lng |-> RoundDiv(x, XYScale)]

\* the crossing test of one polygon side (i, j) in pointInPolygon.  The
\* 1e-12 added to the denominator is far below the grid: it only decides
\* the case where the point is exactly on the line through the side.
Intersect(point, pi, pj) ==
  LET lati == pi[1]  lngi == pi[2]
      latj == pj[1]  lngj == pj[2]
      n == (latj - lati) * (point.lng - lngi)
      d == lngj - lngi
      l == point.lat - lati
  IN /\ (lngi > point.lng) # (lngj > point.lng)
     /\ IF d > 0 THEN l * d < n \/ (l * d = n /\ l < 0)
                 ELSE l * d > n \/ (l * d = n /\ l > 0)

\* pointInPolygon(point, polygon), polygon = [[lat,lng], ...]
PointInPolygon(point, polygon) ==
  LET n == Len(polygon)
      crossings == {i \in 1..n :
                      Intersect(point, polygon[i],
                                polygon[IF i = 1 THEN n ELSE i - 1])}
  IN Cardinality(crossings) % 2 = 1

\* ------------------------------------------------------------------------
\* Graph tables                                       routing/graph.js
\* ------------------------------------------------------------------------
\* add() with g[a][b] = d only: the edge is registered in one direction
AddLinkOneWay(g, a, b, d) ==
  LET g1 == IF Has(g, a) THEN g ELSE Append(g, <<a, << >>>>)
      g2 == IF Has(g1, b) THEN g1 ELSE Append(g1, <<b, << >>>>)
  IN Put(g2, a, Put(Get(g2, a), b, d))

\* g[a][b] = d; g[b][a] = d, creating g[a] and g[b] when missing
AddLink(g, a, b, d) ==
  LET g1 == IF Has(g, a) THEN g ELSE Append(g, <<a, << >>>>)
      g2 == IF Has(g1, b) THEN g1 ELSE Append(g1, <<b, << >>>>)
      g3 == Put(g2, a, Put(Get(g2, a), b, d))
  IN Put(g3, b, Put(Get(g3, b), a, d))

RECURSIVE AddChain(_, _, _, _)
AddChain(g, nodeTable, chain, i) ==
  IF i > Len(chain) - 1 THEN g
  ELSE LET a == chain[i]
           b == chain[i + 1]
       IN IF Has(nodeTable, a) /\ Has(nodeTable, b)
            THEN AddChain(AddLink(g, a, b,
                            HaversineMeters(Get(nodeTable, a), Get(nodeTable, b))),
                          nodeTable, chain, i + 1)
            ELSE AddChain(g, nodeTable, chain, i + 1)

BuildEdgesFromChain(nodeTable, chain) == AddChain(<< >>, nodeTable, chain, 1)

RECURSIVE AddExtraLinksFrom(_, _, _, _)
AddExtraLinksFrom(g, nodeTable, links, i) ==
  IF i > Len(links) THEN g
  ELSE LET a == links[i][1]
           b == links[i][2]
       IN IF Has(nodeTable, a) /\ Has(nodeTable, b)
            THEN AddExtraLinksFrom(AddLink(g, a, b,
                            HaversineMeters(Get(nodeTable, a), Get(nodeTable, b))),
                          nodeTable, links, i + 1)
            ELSE AddExtraLinksFrom(g, nodeTable, links, i + 1)

AddExtraLinks(g, nodeTable, links) == AddExtraLinksFrom(g, nodeTable, links, 1)

\* ------------------------------------------------------------------------
\* snapToGraph(coord, nodes, edges)                   routing/snap.js
\* ------------------------------------------------------------------------
\* `VIRTUAL_${Date.now()}_${Math.random()...}`: s is the timestamp+random part
VirtualId(s) == "VIRTUAL_" \o ToString(s)
VirtualIds == {VirtualId(s) : s \in 1..NumStamps}
\* id.startsWith("VIRTUAL")
StartsWithVirtual(id) == id \in VirtualIds

\* the node ids of the model in the order of JavaScript's string comparison
SortedIds ==
  <<"A", "B", "C", "D", "E", "F">> \o [s \in 1..NumStamps |-> VirtualId(s)]
Rank(id) == CHOOSE i \in 1..Len(SortedIds) : SortedIds[i] = id
\* a < b on strings
StrLess(a, b) == Rank(a) < Rank(b)

\* bestEdge.dist + 0.1 < bestNodeDist: the 0.1 m, in centimetres
SnapMargin == 10

\* projectPointToSegment(p, a, b); t is kept as the fraction num / den
ProjectPointToSegment(p, a, b) ==
  LET APx == p.x - a.x   APy == p.y - a.y
      ABx == b.x - a.x   ABy == b.y - a.y
      sq == ABx * ABx + ABy * ABy
      dot == APx * ABx + APy * ABy
      \* ab2 = sq || 1e-9; a degenerate segment has dot = 0, so t = 0
      ab2 == IF sq = 0 THEN 1 ELSE sq
      num == IF dot < 0 THEN 0 ELSE IF dot > ab2 THEN ab2 ELSE dot
  IN [x |-> a.x + RoundDiv(num * ABx, ab2),
      y |-> a.y + RoundDiv(num * ABy, ab2),
      t |-> [num |-> num, den |-> ab2]]

\* d <= bestNodeDist: the last one in table order among equals
RECURSIVE NearestNodeLastAmongEquals(_, _, _, _, _)
NearestNodeLastAmongEquals(coord, nodeTable, i, bestNode, bestNodeDist) ==
  IF i > Len(nodeTable) THEN [id |-> bestNode, dist |-> bestNodeDist]
  ELSE LET d == HaversineMeters(coord, nodeTable[i][2])
       IN IF d <= bestNodeDist
            THEN NearestNodeLastAmongEquals(coord, nodeTable, i + 1,
                                            nodeTable[i][1], d)
            ELSE NearestNodeLastAmongEquals(coord, nodeTable, i + 1,
                                            bestNode, bestNodeDist)

\* step 1: the nearest node, the first one in table order among equals
RECURSIVE NearestNode(_, _, _, _, _)
NearestNode(coord, nodeTable, i, bestNode, bestNodeDist) ==
  IF i > Len(nodeTable) THEN [id |-> bestNode, dist |-> bestNodeDist]
  ELSE LET d == HaversineMeters(coord, nodeTable[i][2])
       IN IF d < bestNodeDist
            THEN NearestNode(coord, nodeTable, i + 1, nodeTable[i][1], d)
            ELSE NearestNode(coord, nodeTable, i + 1, bestNode, bestNodeDist)

\* the (a, b) the two nested loops of step 2 visit, in order
RECURSIVE EdgePairs(_, _, _)
EdgePairs(adj, i, seen) ==
  IF i > Len(adj) THEN seen
  ELSE EdgePairs(adj, i + 1,
         seen \o [j \in 1..Len(adj[i][2]) |-> <<adj[i][1], adj[i][2][j][1]>>])

NoEdge ==
  [found |-> FALSE, a |-> Null, b |-> Null, t |-> [num |-> 0, den |-> 1],
   coord |-> UndefinedCoord, dist |-> Infinity]

\* d <= bestEdge.dist: the last edge visited among equals
RECURSIVE NearestEdgeLastAmongEquals(_, _, _, _, _)
NearestEdgeLastAmongEquals(coord, nodeTable, pairs, i, bestEdge) ==
  IF i > Len(pairs) THEN bestEdge
  ELSE
    LET a == pairs[i][1]
        b == pairs[i][2]
    IN IF ~StrLess(a, b) \/ ~Has(nodeTable, a) \/ ~Has(nodeTable, b)
         THEN NearestEdgeLastAmongEquals(coord, nodeTable, pairs, i + 1, bestEdge)
         ELSE
           LET refLat == coord.lat
               pXY == ToXY(coord.lat, coord.lng, refLat)
               cA == Get(nodeTable, a)
               cB == Get(nodeTable, b)
               proj == ProjectPointToSegment(pXY, ToXY(cA.lat, cA.lng, refLat),
                                             ToXY(cB.lat, cB.lng, refLat))
               projCoord == XyToLatLng(proj.x, proj.y, refLat)
               d == HaversineMeters(coord, projCoord)
           IN IF ~bestEdge.found \/ d <= bestEdge.dist
                THEN NearestEdgeLastAmongEquals(coord, nodeTable, pairs, i + 1,
                       [found |-> TRUE, a |-> a, b |-> b, t |-> proj.t,
                        coord |-> projCoord, dist |-> d])
                ELSE NearestEdgeLastAmongEquals(coord, nodeTable, pairs, i + 1,
                                                bestEdge)

\* step 2: the nearest edge, the first one visited among equals
RECURSIVE NearestEdge(_, _, _, _, _)
NearestEdge(coord, nodeTable, pairs, i, bestEdge) ==
  IF i > Len(pairs) THEN bestEdge
  ELSE
    LET a == pairs[i][1]
        b == pairs[i][2]
    IN IF ~StrLess(a, b) \/ ~Has(nodeTable, a) \/ ~Has(nodeTable, b)
         THEN NearestEdge(coord, nodeTable, pairs, i + 1, bestEdge)
         ELSE
           LET refLat == coord.lat
               pXY == ToXY(coord.lat, coord.lng, refLat)
               cA == Get(nodeTable, a)
               cB == Get(nodeTable, b)
               aXY == ToXY(cA.lat, cA.lng, refLat)
               bXY == ToXY(cB.lat, cB.lng, refLat)
               proj == ProjectPointToSegment(pXY, aXY, bXY)
               projCoord == XyToLatLng(proj.x, proj.y, refLat)
               d == HaversineMeters(coord, projCoord)
           IN IF ~bestEdge.found \/ d < bestEdge.dist
                THEN NearestEdge(coord, nodeTable, pairs, i + 1,
                       [found |-> TRUE, a |-> a, b |-> b, t |-> proj.t,
                        coord |-> projCoord, dist |-> d])
                ELSE NearestEdge(coord, nodeTable, pairs, i + 1, bestEdge)

BestNode(coord, nodeTable) == NearestNode(coord, nodeTable, 1, Null, Infinity)
BestEdge(coord, nodeTable, adj) ==
  NearestEdge(coord, nodeTable, EdgePairs(adj, 1, << >>), 1, NoEdge)

\* <= in place of <
PreferEdgeOrEqual(bestEdge, bestNodeDist) ==
  bestEdge.found /\ bestEdge.dist + SnapMargin <= bestNodeDist
\* the margin on the wrong side of the comparison
PreferEdgeWithinMargin(bestEdge, bestNodeDist) ==
  bestEdge.found /\ bestEdge.dist < bestNodeDist + SnapMargin
\* prefer edge if significantly closer than nearest node
PreferEdge(bestEdge, bestNodeDist) ==
  bestEdge.found /\ bestEdge.dist + SnapMargin < bestNodeDist

\* the value null of a variable that otherwise holds a snap result
NoSnap ==
  [type |-> "none", nodeId |-> Null, coord |-> UndefinedCoord,
   attach |-> [a |-> Null, b |-> Null]]

\* stamp: the timestamp+random part the call draws for a virtual node id
SnapToGraph(coord, nodeTable, adj, stamp) ==
  LET bn == BestNode(coord, nodeTable)
      be == BestEdge(coord, nodeTable, adj)
  IN IF PreferEdge(be, bn.dist)
       THEN [type |-> "virtual", nodeId |-> VirtualId(stamp), coord |-> be.coord,
             attach |-> [a |-> be.a, b |-> be.b]]
       ELSE [type |-> "node", nodeId |-> bn.id,
             coord |-> IF Has(nodeTable, bn.id) THEN Get(nodeTable, bn.id)
                                                ELSE UndefinedCoord,
             attach |-> [a |-> Null, b |-> Null]]

\* ------------------------------------------------------------------------
\* computeRoute                                      utils/geo.js 67-139
\* ------------------------------------------------------------------------
\* the virtual node with its two links, the links back from a and b left out
AugmentOneWay(g, virtual) ==
  LET a == virtual.attach.a
      b == virtual.attach.b
      dA == HaversineMeters(virtual.coord, Get(nodes, a))
      dB == HaversineMeters(virtual.coord, Get(nodes, b))
  IN Put(g, virtual.nodeId, Put(Put(<< >>, a, dA), b, dB))

\* lines 77-86: the virtual node and its two links, both ways, written to g
Augment(g, virtual) ==
  LET a == virtual.attach.a
      b == virtual.attach.b
      id == virtual.nodeId
      dA == HaversineMeters(virtual.coord, Get(nodes, a))
      dB == HaversineMeters(virtual.coord, Get(nodes, b))
      g1 == Put(g, id, Put(Put(<< >>, a, dA), b, dB))
      g2 == Put(g1, a, Put(IF Has(g1, a) THEN Get(g1, a) ELSE << >>, id, dA))
  IN Put(g2, b, Put(IF Has(g2, b) THEN Get(g2, b) ELSE << >>, id, dB))

\* withVirtualNode without the copy: g is baseEdges itself
WithVirtualNodeNoCopy(baseEdges, virtual) ==
  IF virtual.type = "none"
    THEN [g |-> baseEdges, base |-> baseEdges]
    ELSE [g |-> Augment(baseEdges, virtual), base |-> Augment(baseEdges, virtual)]

\* withVirtualNode(baseEdges, virtual): g is the graph returned, base is the
\* object baseEdges as the call leaves it (g is a JSON copy of it)
WithVirtualNode(baseEdges, virtual) ==
  IF virtual.type = "none"
    THEN [g |-> baseEdges, base |-> baseEdges]
    ELSE [g |-> Augment(baseEdges, virtual), base |-> baseEdges]

\* the same loop without its break: the last building whose polygon holds
\* the user
RECURSIVE InsideBuildingNoBreak(_, _, _)
InsideBuildingNoBreak(userCoord, polygons, i) ==
  IF i > Len(polygons) THEN Null
  ELSE LET rest == InsideBuildingNoBreak(userCoord, polygons, i + 1)
       IN IF rest # Null THEN rest
          ELSE IF PointInPolygon(userCoord, polygons[i][2]) THEN polygons[i][1]
          ELSE Null

\* lines 96-99: the first building, in table order, whose polygon holds the
\* user; null when there is none
RECURSIVE InsideBuilding(_, _, _)
InsideBuilding(userCoord, polygons, i) ==
  IF i > Len(polygons) THEN Null
  ELSE IF PointInPolygon(userCoord, polygons[i][2]) THEN polygons[i][1]
  ELSE InsideBuilding(userCoord, polygons, i + 1)

\* obj[key], undefined when the key is missing
Lookup(obj, key) == IF Has(obj, key) THEN Get(obj, key) ELSE Undefined
NodeCoord(id) == IF Has(nodes, id) THEN Get(nodes, id) ELSE UndefinedCoord

\* if (!destNodeId)
NoEntranceGuardDropped(destNodeId) == FALSE
NoEntrance(destNodeId) == destNodeId = Undefined

\* Math.floor(distance), metres
RoundMetersDown(distance) == distance \div CmPerMeter
\* Math.round(distance), metres
RoundMeters(distance) == RoundDiv(distance, CmPerMeter)

\* line 127 raises a TypeError when an id of the path is no string, or when
\* it is a virtual id while virtual is null
PolylineThrows(path, virtual) ==
  \E i \in 1..Len(path) :
     \/ path[i] \in {Undefined, Null}
     \/ StartsWithVirtual(path[i]) /\ virtual.type = "none"

Polyline(path, virtual) ==
  [i \in 1..Len(path) |->
     IF StartsWithVirtual(path[i]) THEN virtual.coord ELSE NodeCoord(path[i])]

NoSearch == [path |-> << >>, distance |-> Infinity, diverged |-> FALSE]
NoResult == [none |-> TRUE]

\* the origin taken from the first end of the edge snapped onto, the
\* virtual node bypassed
OriginAtAttachedNode(insideBuildingId, snap) ==
  IF insideBuildingId # Null THEN Lookup(buildingExit, insideBuildingId)
  ELSE IF snap.type = "virtual" THEN snap.attach.a
  ELSE snap.nodeId

\* lines 92-113: the origin.  snap is the result of snapToGraph, NoSnap when
\* the user is inside a building and snapToGraph is not called
OriginNodeId(insideBuildingId, snap) ==
  IF insideBuildingId # Null THEN Lookup(buildingExit, insideBuildingId)
                             ELSE snap.nodeId
\* the local variable virtual: the snap result when it is no existing node
Virtual(insideBuildingId, snap) ==
  IF insideBuildingId = Null /\ snap.type # "node" THEN snap ELSE NoSnap

\* lines 115-138: what computeRoute returns once the origin is decided and the
\* search, if it is reached, has ended.  The record holds the locals of the
\* call, its outcome (returned, threw, diverged) and the value returned.
RouteRecord(userCoord, destBuildingId, insideBuildingId, snap, wv, search) ==
  LET inside == insideBuildingId # Null
      originNodeId == OriginNodeId(insideBuildingId, snap)
      virtual == Virtual(insideBuildingId, snap)
      destNodeId == Lookup(buildingEntrance, destBuildingId)
      locals == [op |-> "computeRoute", userCoord |-> userCoord,
                 destBuildingId |-> destBuildingId,
                 insideBuildingId |-> insideBuildingId,
                 snapCalled |-> ~inside, snap |-> snap,
                 originNodeId |-> originNodeId, destNodeId |-> destNodeId,
                 g |-> wv.g, search |-> search]
  IN IF NoEntrance(destNodeId)
       THEN locals @@
            [searched |-> FALSE, outcome |-> "returned",
             result |-> [ok |-> FALSE,
                         error |-> <<"No entrance node for ", destBuildingId>>]]
     ELSE IF search.diverged
       THEN locals @@
            [searched |-> TRUE, outcome |-> "diverged", result |-> NoResult]
     ELSE IF Len(search.path) = 0
       THEN locals @@
            [searched |-> TRUE, outcome |-> "returned",
             result |-> [ok |-> FALSE, error |-> <<"No path found">>]]
     ELSE IF PolylineThrows(search.path, virtual)
       THEN locals @@
            [searched |-> TRUE, outcome |-> "threw", result |-> NoResult]
     ELSE locals @@
            [searched |-> TRUE, outcome |-> "returned",
             result |-> [ok |-> TRUE,
                         pathNodeIds |-> search.path,
                         distanceMeters |-> RoundMeters(search.distance),
                         polyline |-> Polyline(search.path, virtual),
                         startedInsideBuilding |-> inside,
                         startBuilding |-> insideBuildingId,
                         originNodeId |-> originNodeId,
                         destNodeId |-> destNodeId]]

\* ------------------------------------------------------------------------
\* The tables the engine is loaded with
\* ------------------------------------------------------------------------
Coord(lat, lng) == [lat |-> lat, lng |-> lng]

\* three nodes in a row, 10 m apart, one building entered at the far end
ChainWorld ==
  [nodes |-> << <<"A", Coord(0, 0)>>, <<"B", Coord(0, 100)>>,
                <<"C", Coord(0, 200)>> >>,
   chain |-> <<"A", "B", "C">>,
   links |-> << >>,
   entrance |-> << <<"X", "C">> >>,
   exit |-> << >>,
   polygons |-> << >>]

PolygonR == << <<240, 240>>, <<240, 280>>, <<280, 280>>, <<280, 240>> >>

\* the same chain with a bend, the node table in another order
BentChainWorld ==
  [nodes |-> << <<"C", Coord(60, 200)>>, <<"B", Coord(60, 80)>>,
                <<"A", Coord(0, 0)>> >>,
   chain |-> <<"C", "B", "A">>,
   links |-> << >>,
   entrance |-> << <<"X", "C">> >>,
   exit |-> << >>,
   polygons |-> << <<"X", PolygonR>> >>]

PolygonP == << <<120, 20>>, <<120, 80>>, <<180, 80>>, <<180, 20>> >>
PolygonQ == << <<140, 40>>, <<140, 130>>, <<230, 130>>, <<230, 40>> >>
PolygonS == << <<20, 150>>, <<20, 250>>, <<80, 250>>, <<80, 150>> >>

\* a square A-B-C-D of paths with a spur C-E and a node F without any path;
\* P and Q overlap, Q has no exit, the exit of R and the entrance of Q is F,
\* S is entered and left through B
CampusWorld(polygons) ==
  [nodes |-> << <<"A", Coord(0, 0)>>, <<"B", Coord(0, 100)>>,
                <<"C", Coord(100, 100)>>, <<"D", Coord(100, 0)>>,
                <<"E", Coord(200, 100)>>, <<"F", Coord(250, 250)>> >>,
   chain |-> <<"A", "B", "C", "E">>,
   links |-> << <<"D", "A">>, <<"D", "C">> >>,
   entrance |-> << <<"P", "E">>, <<"Q", "F">>, <<"R", "C">>, <<"S", "B">> >>,
   exit |-> << <<"P", "A">>, <<"R", "F">>, <<"S", "B">> >>,
   polygons |-> polygons]

\* two paths A-B and C-D that do not meet
DisconnectedWorld ==
  [nodes |-> << <<"A", Coord(0, 0)>>, <<"B", Coord(0, 100)>>,
                <<"C", Coord(100, 0)>>, <<"D", Coord(100, 100)>> >>,
   chain |-> <<"A", "B">>,
   links |-> << <<"C", "D">> >>,
   entrance |-> << <<"X", "D">>, <<"Y", "B">> >>,
   exit |-> << >>,
   polygons |-> << >>]

\* no node at all
EmptyWorld ==
  [nodes |-> << >>, chain |-> << >>, links |-> << >>,
   entrance |-> << <<"X", "A">> >>, exit |-> << >>, polygons |-> << >>]

\* two node ids at one coordinate, each linked to the same neighbour, as
\* entry20 and entry22 with node29 in the shipped tables
TwinWorld ==
  [nodes |-> << <<"A", Coord(0, 0)>>, <<"B", Coord(0, 100)>>,
                <<"C", Coord(0, 100)>> >>,
   chain |-> << >>,
   links |-> << <<"B", "A">>, <<"C", "A">> >>,
   entrance |-> << <<"X", "B">>, <<"Y", "C">> >>,
   exit |-> << >>,
   polygons |-> << >>]

\* nodes without any path between them
PathlessWorld ==
  [nodes |-> << <<"A", Coord(0, 0)>>, <<"B", Coord(0, 100)>> >>,
   chain |-> << >>,
   links |-> << >>,
   entrance |-> << <<"X", "B">> >>,
   exit |-> << >>,
   polygons |-> << >>]

\* export const edges = addExtraLinks(buildEdgesFromChain(defaultChain), extraLinks)
EdgesOf(w) ==
  AddExtraLinks(BuildEdgesFromChain(w.nodes, w.chain), w.nodes, w.links)

Worlds ==
  {ChainWorld, BentChainWorld,
   CampusWorld(<< <<"P", PolygonP>>, <<"Q", PolygonQ>>,
                  <<"R", PolygonR>>, <<"S", PolygonS>> >>),
   CampusWorld(<< <<"Q", PolygonQ>>, <<"P", PolygonP>>,
                  <<"R", PolygonR>>, <<"S", PolygonS>> >>),
   DisconnectedWorld,
   TwinWorld,
   PathlessWorld,
   EmptyWorld}

\* ------------------------------------------------------------------------
\* The shipped tables                                   routing/graph.js
\* ------------------------------------------------------------------------
\* the tables of graph.js: nodes (the coordinates in units of 0.1 m north and
\* east of latitude 7.25, longitude 80.59, the keys in the order of the
\* source), defaultChain, extraLinks, buildingEntrance and buildingExit;
\* mapdata, which geo.js imports the polygons from, is not part of the
\* repository
ShippedWorld ==
  [nodes |->
     << <<"ENTRY", Coord(2503, 3655)>>, <<"node1", Coord(2532, 3321)>>,
        <<"node2", Coord(2568, 2790)>>, <<"node3", Coord(4329, 3314)>>,
        <<"node4", Coord(4323, 2833)>>, <<"node5", Coord(5170, 3292)>>,
        <<"node6", Coord(4342, 2031)>>, <<"node7", Coord(2667, 2012)>>,
        <<"node8", Coord(4005, 2830)>>, <<"node9", Coord(5739, 2042)>>,
        <<"node11", Coord(4012, 2024)>>, <<"node12", Coord(5083, 2039)>>,
        <<"node13", Coord(5095, 1102)>>, <<"node14", Coord(4848, 2036)>>,
        <<"node15", Coord(4851, 1098)>>, <<"node16", Coord(2821, 1436)>>,
        <<"node17", Coord(2896, 1472)>>, <<"node18", Coord(2907, 2010)>>,
        <<"node20", Coord(3147, 2809)>>, <<"node21", Coord(3902, 2831)>>,
        <<"node22", Coord(3900, 2944)>>, <<"node23", Coord(4145, 2946)>>,
        <<"node24", Coord(4006, 2633)>>, <<"node25", Coord(5736, 2565)>>,
        <<"node26", Coord(5738, 2185)>>, <<"node27", Coord(5371, 2042)>>,
        <<"node28", Coord(4573, 2032)>>, <<"node29", Coord(4183, 2029)>>,
        <<"node30", Coord(3491, 2016)>>, <<"node31", Coord(3186, 2011)>>,
        <<"node32", Coord(2982, 2009)>>, <<"node33", Coord(3158, 2010)>>,
        <<"entry1", Coord(3146, 2744)>>, <<"entry2", Coord(4145, 2958)>>,
        <<"entry3", Coord(4061, 2630)>>, <<"entry4", Coord(5799, 2564)>>,
        <<"entry5", Coord(5715, 2186)>>, <<"entry6", Coord(5452, 2398)>>,
        <<"entry11", Coord(5101, 1302)>>, <<"entry12", Coord(4975, 2008)>>,
        <<"entry15", Coord(4573, 2005)>>, <<"entry18", Coord(3790, 1990)>>,
        <<"entry20", Coord(4176, 2087)>>, <<"entry22", Coord(4176, 2087)>>,
        <<"exit1", Coord(5642, 2189)>>, <<"exit2", Coord(5235, 2402)>>,
        <<"exit8", Coord(5472, 1367)>>, <<"exit11", Coord(4862, 1314)>>,
        <<"exit13", Coord(4587, 1175)>>, <<"exit15", Coord(4080, 1674)>>,
        <<"exit18", Coord(3492, 1240)>>, <<"exit21", Coord(2983, 1981)>>,
        <<"exit28", Coord(3156, 2043)>>, <<"entry,exit", Coord(5370, 2091)>>,
        <<"entry,exit ", Coord(5371, 2012)>>,
        <<"entry,exit17", Coord(3989, 1807)>>,
        <<"entry, exit 16", Coord(3949, 1530)>>,
        <<"exit 21", Coord(2983, 1981)>> >>,
   chain |->
     << "ENTRY", "node1", "node2", "node7", "node16", "node17", "node18",
        "node20", "node21", "node22", "node23", "node24", "node8", "node3",
        "node4", "node5", "node6", "node9", "node11", "node12", "node13",
        "node14", "node15", "node25", "node26", "node27", "node28", "node29",
        "node30", "node31", "node32", "node33" >>,
   links |->
     << <<"node1", "node2">>, <<"node2", "node7">>, <<"node7", "node16">>,
        <<"node16", "node17">>, <<"node17", "node18">>,
        <<"node18", "node20">>, <<"node20", "node21">>,
        <<"node21", "node22">>, <<"node22", "node23">>,
        <<"node23", "node24">>, <<"node24", "node8">>, <<"node8", "node3">>,
        <<"node3", "node4">>, <<"node4", "node5">>, <<"node5", "node6">>,
        <<"node6", "node9">>, <<"node9", "node11">>, <<"node11", "node12">>,
        <<"node12", "node13">>, <<"node13", "node14">>,
        <<"node14", "node15">>, <<"node15", "node25">>,
        <<"node25", "node26">>, <<"node26", "node27">>,
        <<"node27", "node28">>, <<"node28", "node29">>,
        <<"node29", "node30">>, <<"node30", "node31">>,
        <<"node31", "node32">>, <<"node32", "node33">>,
        <<"entry1", "node20">>, <<"entry2", "node22">>,
        <<"entry3", "node24">>, <<"entry4", "node25">>,
        <<"entry5", "node26">>, <<"entry6", "node27">>,
        <<"entry11", "node13">>, <<"entry12", "node27">>,
        <<"entry15", "node28">>, <<"entry18", "node29">>,
        <<"entry20", "node29">>, <<"entry22", "node29">>,
        <<"exit1", "node26">>, <<"exit2", "node27">>, <<"exit8", "node9">>,
        <<"exit11", "node13">>, <<"exit13", "node28">>,
        <<"exit15", "node29">>, <<"exit18", "node30">>,
        <<"exit21", "node32">>, <<"exit28", "node33">> >>,
   entrance |->
     << <<"BUILDING_1", "entry1">>, <<"BUILDING_2", "entry2">>,
        <<"BUILDING_3", "entry3">>, <<"BUILDING_4", "entry4">>,
        <<"BUILDING_5", "entry5">>, <<"BUILDING_6", "entry6">>,
        <<"BUILDING_11", "entry11">>, <<"BUILDING_12", "entry12">>,
        <<"BUILDING_15", "entry15">>, <<"BUILDING_18", "entry18">>,
        <<"BUILDING_20", "entry20">>, <<"BUILDING_22", "entry22">>,
        <<"MAIN_ENTRANCE", "entry,exit">>,
        <<"SECONDARY_ENTRANCE", "entry,exit ">>,
        <<"BUILDING_16", "entry, exit 16">>,
        <<"BUILDING_17", "entry,exit17">> >>,
   exit |->
     << <<"BUILDING_1", "exit1">>, <<"BUILDING_2", "exit2">>,
        <<"BUILDING_8", "exit8">>, <<"BUILDING_11", "exit11">>,
        <<"BUILDING_13", "exit13">>, <<"BUILDING_15", "exit15">>,
        <<"BUILDING_18", "exit18">>, <<"BUILDING_21", "exit21">>,
        <<"BUILDING_28", "exit28">>, <<"MAIN_ENTRANCE", "entry,exit">>,
        <<"SECONDARY_ENTRANCE", "entry,exit ">>,
        <<"BUILDING_16", "entry, exit 16">>,
        <<"BUILDING_17", "entry,exit17">> >>,
   polygons |-> << >>]

\* the positions the position source reports
UserCoords ==
  {Coord(0, 0), Coord(0, 50), Coord(4, 3), Coord(20, 50), Coord(130, 30),
   Coord(150, 50), Coord(200, 110), Coord(50, 200), Coord(250, 250)}

\* the point halfway between two coordinates
Midpoint(cA, cB) == Coord((cA.lat + cB.lat) \div 2, (cA.lng + cB.lng) \div 2)
\* the midpoints of the edges of the adjacency map between nodes of the table
Midpoints ==
  LET pairs == EdgePairs(edges, 1, << >>)
  IN {Midpoint(Get(nodes, pairs[i][1]), Get(nodes, pairs[i][2])) :
        i \in {k \in 1..Len(pairs) :
                 Has(nodes, pairs[k][1]) /\ Has(nodes, pairs[k][2])}}

\* the coordinates a caller of snapToGraph may pass: a reported position,
\* the coordinate of a node or the midpoint of an edge
SnapCoords ==
  UserCoords \cup {nodes[i][2] : i \in 1..Len(nodes)} \cup Midpoints

\* the destinations a caller may ask for
DestIds == KeySet(buildingEntrance) \cup KeySet(buildingPolygons) \cup {"NOWHERE"}

\* the start and goal a caller of dijkstra may pass
SearchArgs == KeySet(nodes) \cup KeySet(edges) \cup {"F", Undefined}

\* the undirected graphs over A..D with weights 0..MaxWeight
GraphPairs ==
  << <<"A", "B">>, <<"A", "C">>, <<"B", "C">>, <<"B", "D">>, <<"C", "D">> >>
RECURSIVE GraphOf(_, _, _)
GraphOf(wt, i, g) ==
  IF i > Len(GraphPairs) THEN g
  ELSE GraphOf(wt, i + 1,
         IF wt[i] < 0 THEN g
         ELSE AddLink(g, GraphPairs[i][1], GraphPairs[i][2], wt[i]))
Graphs ==
  {GraphOf(wt, 1, << >>) : wt \in [1..Len(GraphPairs) -> -1..MaxWeight]}

\* ------------------------------------------------------------------------
\* Position filter        components/LocationWatcher.jsx, LocationMapper
\* ------------------------------------------------------------------------
\* Positions are [lat, lng] pairs in units of 0.1 m, distances are in
\* centimetres, times in milliseconds.  null is << >> where the value is
\* otherwise a pair or a number in a box <<n>>, and 0 where it is an id.
NoPos == << >>
NoAccuracy == << >>
NoId == 0
NoLastRaw == [ll |-> NoPos, t |-> 0]
MsPerSecond == 1000
SlackMeters == 15

\* Math.max(a, b)
MathMax(a, b) == IF a >= b THEN a ELSE b

\* distMeters(a, b): over the short spans of the model the great-circle
\* distance is the Euclidean one
DistMeters(a, b) ==
  LET dLat == b[1] - a[1]
      dLng == b[2] - a[2]
  IN Sqrt(CmPerUnit * CmPerUnit * (dLat * dLat + dLng * dLng))

\* p.coords.accuracy ?? null
AccuracyOf(p) == p.accuracy

\* coordinateMapping: the mapped nodes with their real GPS coordinate (in the
\* units of ShippedWorld) and their tolerance in metres, in the order of the
\* source
CoordinateMapping ==
  << <<"ENTRY", [realGPS |-> <<2503, 3655>>, tolerance |-> 15]>>,
     <<"node1", [realGPS |-> <<2532, 3321>>, tolerance |-> 10]>>,
     <<"node2", [realGPS |-> <<2568, 2790>>, tolerance |-> 10]>>,
     <<"node8", [realGPS |-> <<4005, 2830>>, tolerance |-> 10]>>,
     <<"node24", [realGPS |-> <<4006, 2633>>, tolerance |-> 10]>> >>
\* no mapping: null
NoMapping == [nodeId |-> Null, distance |-> 0]

\* calculateDistance of the mapping module, in centimetres to the nearest
\* 10 cm: the great-circle distance is the Euclidean one over these spans
CalculateDistance(a, b) ==
  LET dLat == b[1] - a[1]
      dLng == b[2] - a[2]
  IN CmPerUnit * Sqrt(dLat * dLat + dLng * dLng)

\* for (const [nodeId, mapping] of Object.entries(coordinateMapping))
\*   if (distance <= mapping.tolerance && distance < minDistance) ...
RECURSIVE ClosestFrom(_, _, _, _)
ClosestFrom(userGPS, i, closestMapping, minDistance) ==
  IF i > Len(CoordinateMapping) THEN closestMapping
  ELSE LET mapping == CoordinateMapping[i][2]
           distance == CalculateDistance(userGPS, mapping.realGPS)
       IN IF distance <= mapping.tolerance * CmPerMeter /\ distance < minDistance
            THEN ClosestFrom(userGPS, i + 1,
                   [nodeId |-> CoordinateMapping[i][1], distance |-> distance],
                   distance)
            ELSE ClosestFrom(userGPS, i + 1, closestMapping, minDistance)
\* findClosestMapping(userGPS)
FindClosestMapping(userGPS) == ClosestFrom(userGPS, 1, NoMapping, Infinity)

\* mapLocationToSVG: if (mapping) if (!currentMapping ||
\* currentMapping.nodeId !== mapping.nodeId), for the currentMapping of the
\* scope
NewMapping(scopeMapping, mapping) ==
  /\ mapping # NoMapping
  /\ scopeMapping = NoMapping \/ scopeMapping.nodeId # mapping.nodeId
\* mapLocationToSVG: else if (currentMapping)
LeftMapping(scopeMapping, mapping) ==
  mapping = NoMapping /\ scopeMapping # NoMapping

\* prev.slice(-n)
Slice(prev, n) ==
  IF Len(prev) <= n THEN prev ELSE SubSeq(prev, Len(prev) - n + 1, Len(prev))
\* the same keeping ten entries before the new one
HistoryWithTenKept(prev, mapping, clock, userPosition) ==
  Slice(prev, 10) \o <<[nodeId |-> mapping.nodeId, distance |-> mapping.distance,
                        timestamp |-> clock, userPosition |-> userPosition]>>
\* [...prev.slice(-9), { ...mapping, timestamp: Date.now(), userPosition }]
HistoryWith(prev, mapping, clock, userPosition) ==
  Slice(prev, 9) \o <<[nodeId |-> mapping.nodeId, distance |-> mapping.distance,
                       timestamp |-> clock, userPosition |-> userPosition]>>
\* p.timestamp ? +p.timestamp : Date.now(); a missing timestamp is 0
TimeOf(p, clock) == IF p.timestamp = 0 THEN clock ELSE p.timestamp

\* a sample is stale only beyond twice the threshold
StaleBeyondTwice(clock, t, staleMs) == clock - t > 2 * staleMs
\* Date.now() - t > staleMs
Stale(clock, t, staleMs) == clock - t > staleMs

\* a missing accuracy is rejected as well
LowAccuracyOrAbsent(a, accuracyMax) == a = NoAccuracy \/ a[1] > accuracyMax
\* a && a > accuracyMax
LowAccuracy(a, accuracyMax) == a # NoAccuracy /\ a[1] # 0 /\ a[1] > accuracyMax

\* the time difference without its lower bound of one second
DtUnclamped(t, prevT) == t - prevT
\* Math.max(1, (t - prev.t) / 1000), in milliseconds
Dt(t, prevT) == MathMax(MsPerSecond, t - prevT)

\* jumpGuard * dt + 15, in centimetres
MaxAllowed(jumpGuard, dt) ==
  (jumpGuard * dt * CmPerMeter) \div MsPerSecond + SlackMeters * CmPerMeter

\* the jump guard: prev && d > maxAllowed
Jump(prev, ll, t, jumpGuard) ==
  /\ prev # NoLastRaw
  /\ DistMeters(prev.ll, ll) > MaxAllowed(jumpGuard, Dt(t, prev.t))

\* from + ema * (to - from), ema a fraction
Ema(from, to, ema) == from + RoundDiv(ema.num * (to - from), ema.den)

\* step 3: smoothing, with the pos of the scope the handler closed over
Smoothed(scopePos, ll, ema) ==
  IF scopePos = NoPos THEN ll
  ELSE <<Ema(scopePos[1], ll[1], ema), Ema(scopePos[2], ll[2], ema)>>

\* the smoothed position is stored in place of the raw one
LastRawSmoothed(ll, t, smoothed) == [ll |-> smoothed, t |-> t]
\* lastRawRef.current = { ll, t }
LastRaw(ll, t, smoothed) == [ll |-> ll, t |-> t]

\* lastRawRef.current written on every sample that has a predecessor: a
\* rejected sample moves its time on
LastRawAfterAnySample(accepted, lastRaw, ll, t, smoothed) ==
  IF accepted THEN LastRaw(ll, t, smoothed)
  ELSE IF lastRaw = NoLastRaw THEN lastRaw
  ELSE [ll |-> lastRaw.ll, t |-> t]
\* lastRawRef.current after one run of onSuccess: every gate returns ahead
\* of the assignment, which is the last statement of the handler
LastRawAfter(accepted, lastRaw, ll, t, smoothed) ==
  IF accepted THEN LastRaw(ll, t, smoothed) ELSE lastRaw

\* the calls of the callbacks the parent passed, as records
ReportRawCall(ll, a) == [fn |-> "reportRaw", ll |-> ll, a |-> a]
OnMoveCall(smoothed) == [fn |-> "onMove", ll |-> smoothed, a |-> NoAccuracy]
\* onMove called next to reportRaw, ahead of the gates
CallbacksAheadOfGates(ll, a, accepted, smoothed) ==
  <<ReportRawCall(ll, a), OnMoveCall(smoothed)>>
\* the callbacks one run of onSuccess calls, in order: reportRaw?.(ll, a)
\* ahead of the gates, onMove?.(smoothed) once the sample is accepted
Callbacks(ll, a, accepted, smoothed) ==
  <<ReportRawCall(ll, a)>> \o
    (IF accepted THEN <<OnMoveCall(smoothed)>> ELSE << >>)

\* the gates of onSuccess in their order
Verdict(scope, prev, ll, a, t, clock) ==
  IF Stale(clock, t, scope.props.staleMs) THEN "stale"
  ELSE IF LowAccuracy(a, scope.props.accuracyMax) THEN "lowAccuracy"
  ELSE IF Jump(prev, ll, t, scope.props.jumpGuard) THEN "jump"
  ELSE "accepted"

\* the parameters a parent passes: the defaults and a second choice
DefaultProps ==
  [accuracyMax |-> 60, staleMs |-> 8000, ema |-> [num |-> 1, den |-> 4],
   jumpGuard |-> 8]
OtherProps ==
  [accuracyMax |-> 90, staleMs |-> 9000, ema |-> [num |-> 1, den |-> 2],
   jumpGuard |-> 7]
PropsChoices == {DefaultProps, OtherProps}

\* what the position source delivers
\* two fixes 23 m apart: what jumpGuard 8 allows in one second, exactly
RawFixes == {<<0, 0>>, <<138, 184>>}
\* no accuracy, and one between the accuracyMax of the two parameter sets
Accuracies == {NoAccuracy, <<61>>}
\* the age of a sample with a timestamp: the default staleMs, and beyond
\* both thresholds
Ages == {8000, 9500}
\* the values Date.now() takes, a second and a half apart
Times == <<20000, 21500>>
\* a time later than twice the staleMs of either parameter set after those
LaterTime == 40000
\* a position with timestamp 0 is one without a timestamp
Positions(clock) ==
  [ll : RawFixes, accuracy : Accuracies,
   timestamp : {0} \cup {clock - age : age \in Ages}]
ErrorCodes == {"POSITION_UNAVAILABLE", "TIMEOUT"}

\* navigator.geolocation.watchPosition(onSuccess, onError, options): the
\* callbacks close over the pos and the parameters of one render
\* the options of watchPosition: those of LocationWatcher, and of
\* LocationMapper debugInfo.attempts === 0 ? fastOptions : accurateOptions
Options(comp, attempts) ==
  IF comp = "LocationWatcher"
    THEN [enableHighAccuracy |-> TRUE, maximumAge |-> 3000, timeout |-> 10000]
  ELSE IF attempts = 0
    THEN [enableHighAccuracy |-> FALSE, maximumAge |-> 10000, timeout |-> 8000]
  ELSE [enableHighAccuracy |-> TRUE, maximumAge |-> 5000, timeout |-> 15000]
\* the values of the render a callback closed over
Scope(scopePos, scopeProps, scopeDebugInfo, scopeMapping) ==
  [pos |-> scopePos, props |-> scopeProps, debugInfo |-> scopeDebugInfo,
   currentMapping |-> scopeMapping]
\* navigator.geolocation.watchPosition(onSuccess, onError, options)
Watch(id, scope) ==
  [id |-> id, scope |-> scope,
   options |-> Options(component, scope.debugInfo.attempts)]
\* navigator.geolocation.clearWatch(id), clearTimeout(id)
Clear(registered, id) == {r \in registered : r.id # id}

\* the cleanup of the effect: LocationWatcher clears the watch of
\* watchIdRef and keeps the ref; LocationMapper clears the watch and the
\* timer of its refs and sets both refs to null
CleanupWatches == IF watchIdRef # NoId THEN Clear(watches, watchIdRef) ELSE watches
CleanupTimers ==
  IF component = "LocationMapper" /\ retryTimeoutRef # NoId
    THEN Clear(timers, retryTimeoutRef) ELSE timers
CleanupWatchIdRef == IF component = "LocationMapper" THEN NoId ELSE watchIdRef
CleanupRetryTimeoutRef == IF component = "LocationMapper" THEN NoId ELSE retryTimeoutRef

\* ------------------------------------------------------------------------
\* State machine
\* ------------------------------------------------------------------------
\* const ageMs = lastRawRef.current ? Date.now() - lastRawRef.current.t : 0
AgeMs(lastRaw, clock) == IF lastRaw # NoLastRaw THEN clock - lastRaw.t ELSE 0
\* const isStale = ageMs > staleMs * 2
IsStale(lastRaw, clock, staleMs) == AgeMs(lastRaw, clock) > staleMs * 2

\* nothing of the component is on the screen
NoView == [panel |-> "none", pos |-> NoPos, marked |-> FALSE]
\* what the component returns when it renders.  LocationMapper returns its
\* error panel while status is error or timeout and its waiting panel while
\* pos is null; LocationWatcher returns null while pos is null.  With a
\* position the marker is drawn; LocationMapper adds its notice when isStale,
\* LocationWatcher dims the accuracy circle, which it draws when acc is set.
RenderView(comp, st, p, a, lastRaw, clock, staleMs) ==
  IF comp = "LocationMapper" /\ st \in {"error", "timeout"}
    THEN [panel |-> "error", pos |-> NoPos, marked |-> FALSE]
  ELSE IF p = NoPos
    THEN [panel |-> IF comp = "LocationMapper" THEN "locating" ELSE "none",
          pos |-> NoPos, marked |-> FALSE]
  ELSE [panel |-> "marker", pos |-> p,
        marked |-> /\ IsStale(lastRaw, clock, staleMs)
                   /\ (comp = "LocationMapper" \/ a # NoAccuracy)]

\* setDebugInfo(prev => ({ attempts: prev.attempts + 1, ... })) of
\* LocationMapper
Attempted(comp, isMounted, prev) ==
  IF comp = "LocationMapper" /\ isMounted
    THEN [attempts |-> prev.attempts + 1] ELSE prev

\* useState("initializing") of LocationMapper; LocationWatcher has no status
InitialStatus(comp) == IF comp = "LocationMapper" THEN "initializing" ELSE "none"
\* setStatus(st) of LocationMapper
SetStatus(st) == IF component = "LocationMapper" /\ mounted THEN st ELSE status

NoCall == [op |-> "none"]

\* ------------------------------------------------------------------------
\* EnhancedNavigator and PathTester: their state at mount
\* ------------------------------------------------------------------------
\* the component is not on the screen
NoScreen == [mounted |-> FALSE]
\* currentRoute = null; a route is held boxed, <<route>>
NoRoute == << >>
\* no interval is set
NoInterval == [pending |-> FALSE, left |-> 0]
\* the useState values of EnhancedNavigator; no interval is set, the effect
\* returns early without a route and a position
NavigatorMounted ==
  [mounted |-> TRUE, userPosition |-> NoPos, destination |-> Null,
   currentRoute |-> NoRoute, isNavigating |-> FALSE, currentStep |-> 0,
   showDirections |-> FALSE, interval |-> NoInterval,
   last |-> "mount"]
\* the useState and useRef values of PathTester; event is the last call of
\* onTestProgress
TesterMounted ==
  [mounted |-> TRUE, isWalking |-> FALSE, currentStep |-> 0,
   currentPosition |-> NoPos, testResults |-> << >>, intervalRef |-> NoId,
   intervals |-> {}, lastIntervalId |-> 0, event |-> [type |-> "none"],
   last |-> "mount"]
ScreensIdle ==
  /\ enhancedNavigator = NoScreen
  /\ pathTester = NoScreen

\* no tracker component is mounted
TrackerIdle ==
  /\ component = "none"
  /\ mounted = FALSE
  /\ props = DefaultProps
  /\ pos = NoPos
  /\ acc = NoAccuracy
  /\ lastRawRef = NoLastRaw
  /\ watchIdRef = NoId
  /\ retryTimeoutRef = NoId
  /\ watches = {}
  /\ timers = {}
  /\ lastWatchId = 0
  /\ lastTimerId = 0
  /\ now = 0
  /\ fix = [op |-> "none"]
  /\ session = [no |-> 0, accepted |-> FALSE]
  /\ status = "none"
  /\ view = NoView
  /\ lastAcceptedAt = 0
  /\ debugInfo = [attempts |-> 0]
  /\ currentMapping = NoMapping
  /\ mappingHistory = << >>

\* no routing table is loaded
RoutingIdle ==
  /\ nodes = << >>
  /\ edges = << >>
  /\ buildingEntrance = << >>
  /\ buildingExit = << >>
  /\ buildingPolygons = << >>
  /\ call = NoCall
  /\ previous = NoResult

Init ==
  \E w \in Worlds :
    /\ TrackerIdle
    /\ ScreensIdle
    /\ nodes = w.nodes
    /\ edges = EdgesOf(w)
    /\ buildingEntrance = w.entrance
    /\ buildingExit = w.exit
    /\ buildingPolygons = w.polygons
    /\ call = NoCall
    /\ previous = NoResult

InitDijkstra ==
  /\ TrackerIdle
  /\ ScreensIdle
  /\ nodes = << >>
  /\ edges \in Graphs
  /\ buildingEntrance = << >>
  /\ buildingExit = << >>
  /\ buildingPolygons = << >>
  /\ call = NoCall
  /\ previous = NoResult

\* computeRoute({ userCoord, destBuildingId }); stamp is what Date.now() and
\* Math.random() give to a snapToGraph call that makes a virtual node.  The
\* steps are taken in the order of the code; the graph is augmented and
\* searched only when the destination has an entrance.
ComputeRouteCall ==
  \E userCoord \in UserCoords, destBuildingId \in DestIds, stamp \in 1..NumStamps :
  \E insideBuildingId \in {InsideBuilding(userCoord, buildingPolygons, 1)} :
  \E snap \in {IF insideBuildingId # Null THEN NoSnap
               ELSE SnapToGraph(userCoord, nodes, edges, stamp)} :
  \E destNodeId \in {Lookup(buildingEntrance, destBuildingId)} :
  \E wv \in {IF NoEntrance(destNodeId) THEN [g |-> edges, base |-> edges]
             ELSE WithVirtualNode(edges, Virtual(insideBuildingId, snap))} :
  \E search \in {IF NoEntrance(destNodeId) THEN NoSearch
                 ELSE Dijkstra(wv.g, OriginNodeId(insideBuildingId, snap),
                               destNodeId)} :
    /\ call' = RouteRecord(userCoord, destBuildingId, insideBuildingId, snap,
                           wv, search)
    /\ previous' = IF /\ call.op = "computeRoute"
                       /\ call.userCoord = userCoord
                       /\ call.destBuildingId = destBuildingId
                      THEN call.result ELSE NoResult
    /\ edges' = wv.base
    /\ UNCHANGED <<nodes, buildingEntrance, buildingExit, buildingPolygons>>
    /\ UNCHANGED <<trackerVars, screenVars>>

SnapToGraphCall ==
  \E coord \in SnapCoords, stamp \in 1..NumStamps :
    /\ call' = [op |-> "snapToGraph", coord |-> coord,
                bestEdge |-> BestEdge(coord, nodes, edges),
                snap |-> SnapToGraph(coord, nodes, edges, stamp)]
    /\ previous' = NoResult
    /\ UNCHANGED <<nodes, edges, buildingEntrance, buildingExit, buildingPolygons>>
    /\ UNCHANGED <<trackerVars, screenVars>>

DijkstraCall ==
  \E start \in SearchArgs, goal \in SearchArgs :
    /\ call' = [op |-> "dijkstra", start |-> start, goal |-> goal,
                search |-> Dijkstra(edges, start, goal)]
    /\ UNCHANGED <<nodes, edges, buildingEntrance, buildingExit, buildingPolygons,
                   previous>>
    /\ UNCHANGED <<trackerVars, screenVars>>

Next == ComputeRouteCall \/ SnapToGraphCall
Spec == Init /\ [][Next]_vars

\* one search per graph
DijkstraOnce == call = NoCall /\ DijkstraCall
NextDijkstra == DijkstraOnce
SpecDijkstra == InitDijkstra /\ [][NextDijkstra]_vars

\* the module graph.js being loaded, one link at a time, and then searched
\* from the main entry point or the exit of a building to the entrance or
\* exit of a building, one turn of the loop of dijkstra at a time
InitShipped ==
  /\ TrackerIdle
  /\ ScreensIdle
  /\ nodes = ShippedWorld.nodes
  /\ edges = << >>
  /\ buildingEntrance = ShippedWorld.entrance
  /\ buildingExit = ShippedWorld.exit
  /\ buildingPolygons = ShippedWorld.polygons
  /\ call = [op |-> "load", chainAt |-> 1, linkAt |-> 1]
  /\ previous = NoResult

\* one turn of the loop of buildEdgesFromChain
LoadChainLink ==
  /\ call.op = "load"
  /\ call.chainAt < Len(ShippedWorld.chain)
  /\ edges' = AddChain(edges, nodes,
                       SubSeq(ShippedWorld.chain, call.chainAt, call.chainAt + 1), 1)
  /\ call' = [call EXCEPT !.chainAt = @ + 1]
  /\ UNCHANGED <<nodes, buildingEntrance, buildingExit, buildingPolygons, previous>>
  /\ UNCHANGED <<trackerVars, screenVars>>

\* one turn of the loop of addExtraLinks, on the map the chain gave
LoadExtraLink ==
  /\ call.op = "load"
  /\ call.chainAt = Len(ShippedWorld.chain)
  /\ call.linkAt <= Len(ShippedWorld.links)
  /\ edges' = AddExtraLinksFrom(edges, nodes,
                                <<ShippedWorld.links[call.linkAt]>>, 1)
  /\ call' = [call EXCEPT !.linkAt = @ + 1]
  /\ UNCHANGED <<nodes, buildingEntrance, buildingExit, buildingPolygons, previous>>
  /\ UNCHANGED <<trackerVars, screenVars>>

\* export const edges has its value
Loaded ==
  \/ call.op \in {"searching", "dijkstra"}
  \/ /\ call.op = "load"
     /\ call.chainAt = Len(ShippedWorld.chain)
     /\ call.linkAt > Len(ShippedWorld.links)

\* the node ids the entrance and exit tables refer to
ReferencedIds ==
  {buildingEntrance[i][2] : i \in 1..Len(buildingEntrance)}
    \cup {buildingExit[i][2] : i \in 1..Len(buildingExit)}

ShippedOrigins ==
  {"ENTRY"} \cup {buildingExit[i][2] : i \in 1..Len(buildingExit)}

\* dijkstra(edges, start, goal) up to its loop
SearchStarts ==
  /\ Loaded
  /\ call.op # "searching"
  /\ \E start \in ShippedOrigins, goal \in ReferencedIds :
       call' = [op |-> "searching", start |-> start, goal |-> goal,
                dist |-> InitialDist(edges, start), prev |-> << >>,
                visited |-> {}, pq |-> Keys(edges)]
  /\ UNCHANGED <<nodes, edges, buildingEntrance, buildingExit, buildingPolygons,
                 previous>>
  /\ UNCHANGED <<trackerVars, screenVars>>

\* the node the next turn of the loop takes from pq
NextNode == SelectMin(call.pq, call.dist, 1, Null, Infinity)
\* while (pq.size), if (u === null) break, if (u === goal) break
LoopEnds == Len(call.pq) = 0 \/ NextNode = Null \/ NextNode = call.goal

\* one turn of the loop of dijkstra
SearchTurn ==
  /\ call.op = "searching"
  /\ ~LoopEnds
  /\ \E fin \in {SearchLoop(edges, call.goal, call.dist, call.prev,
                              call.visited, <<NextNode>>)} :
       call' = [call EXCEPT !.dist = fin.dist, !.prev = fin.prev,
                            !.visited = @ \cup {NextNode},
                            !.pq = Delete(@, NextNode)]
  /\ UNCHANGED <<nodes, edges, buildingEntrance, buildingExit, buildingPolygons,
                 previous>>
  /\ UNCHANGED <<trackerVars, screenVars>>

\* the loop of dijkstra has ended and dijkstra returns
SearchReturns ==
  /\ call.op = "searching"
  /\ LoopEnds
  /\ call' = [op |-> "dijkstra", start |-> call.start, goal |-> call.goal,
              search |-> Finish([dist |-> call.dist, prev |-> call.prev],
                                call.start, call.goal, Len(edges))]
  /\ UNCHANGED <<nodes, edges, buildingEntrance, buildingExit, buildingPolygons,
                 previous>>
  /\ UNCHANGED <<trackerVars, screenVars>>

NextShipped ==
  LoadChainLink \/ LoadExtraLink \/ SearchStarts \/ SearchTurn \/ SearchReturns
SpecShipped == InitShipped /\ [][NextShipped]_vars

\* ------------------------------------------------------------------------
\* The position tracker
\* ------------------------------------------------------------------------
\* the first render and the first run of the effect: one watch, whose
\* callbacks closed over pos = null
InitTracker ==
  /\ RoutingIdle
  /\ ScreensIdle
  /\ component \in {"LocationWatcher", "LocationMapper"}
  /\ mounted = TRUE
  /\ props = DefaultProps
  /\ pos = NoPos
  /\ acc = NoAccuracy
  /\ lastRawRef = NoLastRaw
  /\ watchIdRef = 1
  /\ retryTimeoutRef = NoId
  /\ watches = {Watch(1, Scope(NoPos, DefaultProps, [attempts |-> 0], NoMapping))}
  /\ timers = {}
  /\ lastWatchId = 1
  /\ lastTimerId = 0
  /\ now = Times[1]
  /\ fix = [op |-> "mount"]
  /\ session = [no |-> 1, accepted |-> FALSE]
  /\ status = InitialStatus(component)
  /\ view = RenderView(component, status, NoPos, NoAccuracy, NoLastRaw,
                       Times[1], DefaultProps.staleMs)
  /\ lastAcceptedAt = 0
  /\ debugInfo = Attempted(component, TRUE, [attempts |-> 0])
  /\ currentMapping = NoMapping
  /\ mappingHistory = << >>

\* onSuccess(p) of a registered watch.  The handler reads pos and the
\* parameters from the scope it closed over, and lastRawRef.current from
\* the ref; setPos and setAcc do nothing once the component is
\* unmounted.  LocationMapper also sets status to active and clears the
\* retry timer of its ref.  The state set makes the component render again,
\* after the handler has written lastRawRef.
Handle(w, p) ==
  \E t \in {TimeOf(p, now)} :
  \E verdict \in {Verdict(w.scope, lastRawRef, p.ll, AccuracyOf(p), t, now)} :
  \E smoothed \in {Smoothed(w.scope.pos, p.ll, w.scope.props.ema)} :
  \E accepted \in {verdict = "accepted"} :
  \E clearsTimer \in {accepted /\ component = "LocationMapper"} :
  \E mapping \in {IF clearsTimer THEN FindClosestMapping(smoothed) ELSE NoMapping} :
  \E isNew \in {clearsTimer /\ NewMapping(w.scope.currentMapping, mapping)} :
  \E hasLeft \in {clearsTimer /\ LeftMapping(w.scope.currentMapping, mapping)} :
    /\ pos' = IF accepted /\ mounted THEN smoothed ELSE pos
    /\ acc' = IF accepted /\ mounted THEN AccuracyOf(p) ELSE acc
    /\ lastRawRef' = LastRawAfter(accepted, lastRawRef, p.ll, t, smoothed)
    /\ timers' = IF clearsTimer /\ retryTimeoutRef # NoId
                   THEN Clear(timers, retryTimeoutRef) ELSE timers
    /\ retryTimeoutRef' = IF clearsTimer THEN NoId ELSE retryTimeoutRef
    /\ session' = [session EXCEPT !.accepted = @ \/ accepted]
    /\ status' = IF accepted THEN SetStatus("active") ELSE status
    /\ view' = IF accepted /\ mounted
                 THEN RenderView(component, status', pos', acc', lastRawRef',
                                 now, props.staleMs)
                 ELSE view
    /\ lastAcceptedAt' = IF accepted THEN now ELSE lastAcceptedAt
    /\ currentMapping' = IF isNew /\ mounted THEN mapping
                         ELSE IF hasLeft /\ mounted THEN NoMapping
                         ELSE currentMapping
    /\ mappingHistory' = IF isNew /\ mounted
                           THEN HistoryWith(mappingHistory, mapping, now, smoothed)
                           ELSE mappingHistory
    /\ fix' = [op |-> "onSuccess", scope |-> w.scope, p |-> p, t |-> t,
               clock |-> now, verdict |-> verdict,
               emitted |-> IF accepted THEN smoothed ELSE NoPos,
               calls |-> Callbacks(p.ll, AccuracyOf(p), accepted, smoothed),
               mapping |-> mapping,
               notified |-> isNew,
               first |-> ~session.accepted,
               stopped |-> ~mounted,
               before |-> [pos |-> pos, acc |-> acc, lastRaw |-> lastRawRef,
                           retryTimeoutRef |-> retryTimeoutRef,
                           currentMapping |-> currentMapping,
                           mappingHistory |-> mappingHistory]]
    /\ UNCHANGED <<component, mounted, props, watchIdRef, watches,
                   lastWatchId, lastTimerId, now, debugInfo>>
    /\ UNCHANGED <<routingVars, screenVars>>

OnSuccess == \E w \in watches, p \in Positions(now) : Handle(w, p)

\* startWatching() of the scope: a new watch is registered and its id
\* stored; the watch registered before is not cleared
StartWatching(scope) ==
  /\ lastWatchId < MaxWatches
  /\ lastWatchId' = lastWatchId + 1
  /\ watches' = watches \cup {Watch(lastWatchId + 1, scope)}
  /\ watchIdRef' = lastWatchId + 1
  /\ debugInfo' = Attempted(component, mounted, debugInfo)

\* onError(err) of a registered watch.  LocationWatcher logs it.
\* LocationMapper sets status to error, or to timeout on TIMEOUT, and
\* renders; on TIMEOUT it sets a timer that calls the startWatching of the
\* scope; a timer set before is not cleared.
OnError ==
  \E w \in watches, code \in ErrorCodes :
    /\ fix' = [op |-> "onError", code |-> code]
    /\ IF component = "LocationMapper" /\ code = "TIMEOUT"
         THEN /\ lastTimerId < MaxTimers
              /\ lastTimerId' = lastTimerId + 1
              /\ timers' = timers \cup {[id |-> lastTimerId + 1, scope |-> w.scope]}
              /\ retryTimeoutRef' = lastTimerId + 1
         ELSE UNCHANGED <<lastTimerId, timers, retryTimeoutRef>>
    /\ status' = SetStatus(IF code = "TIMEOUT" THEN "timeout" ELSE "error")
    /\ view' = IF component = "LocationMapper" /\ mounted
                 THEN RenderView(component, status', pos, acc, lastRawRef, now,
                                 props.staleMs)
                 ELSE view
    /\ UNCHANGED <<component, mounted, props, pos, acc, lastRawRef, watchIdRef,
                   watches, lastWatchId, now, session, lastAcceptedAt,
                   debugInfo, currentMapping, mappingHistory>>
    /\ UNCHANGED <<routingVars, screenVars>>

\* a pending retry timer fires: startWatching sets status to initializing
\* and registers a watch
RetryFires ==
  \E timer \in timers :
    /\ timers' = timers \ {timer}
    /\ StartWatching(timer.scope)
    /\ status' = SetStatus("initializing")
    /\ view' = IF mounted
                 THEN RenderView(component, status', pos, acc, lastRawRef, now,
                                 props.staleMs)
                 ELSE view
    /\ fix' = [op |-> "retry"]
    /\ UNCHANGED <<component, mounted, props, pos, acc, lastRawRef,
                   retryTimeoutRef, lastTimerId, now, session, lastAcceptedAt,
                   currentMapping, mappingHistory>>
    /\ UNCHANGED <<routingVars, screenVars>>

\* the parent passes other filter parameters: the component renders, the
\* cleanup of the effect runs and the effect runs again, in the scope of
\* this render.  The refs and the state are those of the component.
ChangeProps ==
  \E newProps \in PropsChoices \ {props} :
    /\ mounted
    /\ lastWatchId < MaxWatches
    /\ props' = newProps
    /\ lastWatchId' = lastWatchId + 1
    /\ watches' = CleanupWatches
                   \cup {Watch(lastWatchId + 1,
                               Scope(pos, newProps, debugInfo, currentMapping))}
    /\ debugInfo' = Attempted(component, mounted, debugInfo)
    /\ watchIdRef' = lastWatchId + 1
    /\ timers' = CleanupTimers
    /\ retryTimeoutRef' = CleanupRetryTimeoutRef
    /\ session' = [no |-> session.no + 1, accepted |-> FALSE]
    /\ status' = SetStatus("initializing")
    /\ view' = RenderView(component, status', pos, acc, lastRawRef, now,
                          newProps.staleMs)
    /\ fix' = [op |-> "changeProps"]
    /\ UNCHANGED <<component, mounted, pos, acc, lastRawRef, lastTimerId, now,
                   lastAcceptedAt,
                   currentMapping, mappingHistory>>
    /\ UNCHANGED <<routingVars, screenVars>>

\* the component is unmounted: the cleanup of the effect runs
Unmount ==
  /\ mounted
  /\ mounted' = FALSE
  /\ watches' = CleanupWatches
  /\ watchIdRef' = CleanupWatchIdRef
  /\ timers' = CleanupTimers
  /\ retryTimeoutRef' = CleanupRetryTimeoutRef
  /\ view' = NoView
  /\ fix' = [op |-> "unmount"]
  /\ UNCHANGED <<component, props, pos, acc, lastRawRef, lastWatchId,
                 lastTimerId, now, session, status, lastAcceptedAt,
                   debugInfo, currentMapping, mappingHistory>>
  /\ UNCHANGED <<routingVars, screenVars>>

\* time passes; nothing renders the component
Tick ==
  \E i \in 1..Len(Times) :
    /\ Times[i] > now
    /\ now' = Times[i]
    /\ UNCHANGED <<component, mounted, props, pos, acc, lastRawRef,
                   watchIdRef, retryTimeoutRef, watches, timers, lastWatchId,
                   lastTimerId, fix, session, status, view, lastAcceptedAt,
                   debugInfo, currentMapping, mappingHistory>>
    /\ UNCHANGED <<routingVars, screenVars>>

\* the parent renders and the component renders with it, its parameters
\* unchanged: no effect runs
Render ==
  /\ mounted
  /\ view' = RenderView(component, status, pos, acc, lastRawRef, now,
                        props.staleMs)
  /\ UNCHANGED <<component, mounted, props, pos, acc, lastRawRef,
                 watchIdRef, retryTimeoutRef, watches, timers, lastWatchId,
                 lastTimerId, now, fix, session, status, lastAcceptedAt,
                   debugInfo, currentMapping, mappingHistory>>
  /\ UNCHANGED <<routingVars, screenVars>>

\* a long time passes; nothing renders the component
Wait ==
  /\ now < LaterTime
  /\ now' = LaterTime
  /\ UNCHANGED <<component, mounted, props, pos, acc, lastRawRef,
                 watchIdRef, retryTimeoutRef, watches, timers, lastWatchId,
                 lastTimerId, fix, session, status, view, lastAcceptedAt,
                   debugInfo, currentMapping, mappingHistory>>
  /\ UNCHANGED <<routingVars, screenVars>>

NextTracker == OnSuccess \/ OnError \/ RetryFires \/ ChangeProps \/ Unmount \/ Tick
SpecTracker == InitTracker /\ [][NextTracker]_vars

\* ------------------------------------------------------------------------
\* A position source that has moved away and stays there
\* ------------------------------------------------------------------------
\* where the source is first, and where it is from its first accepted
\* sample on: 50 m away
JumpHome == <<0, 0>>
JumpAway == <<300, 400>>
\* what the source reports: fresh and accurate samples, with or without a
\* timestamp, from the place where it is
JumpPositions ==
  [ll : {IF lastRawRef = NoLastRaw THEN JumpHome ELSE JumpAway},
   accuracy : {<<5>>},
   timestamp : {0, now}]

InitJump ==
  /\ RoutingIdle
  /\ ScreensIdle
  /\ component \in {"LocationWatcher", "LocationMapper"}
  /\ mounted = TRUE
  /\ props \in PropsChoices
  /\ pos = NoPos
  /\ acc = NoAccuracy
  /\ lastRawRef = NoLastRaw
  /\ watchIdRef = 1
  /\ retryTimeoutRef = NoId
  /\ watches = {Watch(1, Scope(NoPos, props, [attempts |-> 0], NoMapping))}
  /\ timers = {}
  /\ lastWatchId = 1
  /\ lastTimerId = 0
  /\ now = Times[1]
  /\ fix = [op |-> "mount"]
  /\ session = [no |-> 1, accepted |-> FALSE]
  /\ status = InitialStatus(component)
  /\ view = RenderView(component, status, NoPos, NoAccuracy, NoLastRaw,
                       Times[1], props.staleMs)
  /\ lastAcceptedAt = 0
  /\ debugInfo = Attempted(component, TRUE, [attempts |-> 0])
  /\ currentMapping = NoMapping
  /\ mappingHistory = << >>

\* onSuccess(p) for a sample of that source
JumpArrives == \E w \in watches, p \in JumpPositions : Handle(w, p)

\* a second passes, once the first sample is accepted
SecondPasses ==
  /\ lastRawRef # NoLastRaw
  /\ now < Times[1] + MaxSeconds * MsPerSecond
  /\ now' = now + MsPerSecond
  /\ UNCHANGED <<component, mounted, props, pos, acc, lastRawRef,
                 watchIdRef, retryTimeoutRef, watches, timers, lastWatchId,
                 lastTimerId, fix, session, status, view, lastAcceptedAt,
                   debugInfo, currentMapping, mappingHistory>>
  /\ UNCHANGED <<routingVars, screenVars>>

NextJump == JumpArrives \/ SecondPasses
\* time passes and the source keeps reporting
SpecJump ==
  InitJump /\ [][NextJump]_vars /\ WF_vars(SecondPasses) /\ WF_vars(JumpArrives)

\* the tracker with its renders and with long waits
NextView ==
  OnSuccess \/ OnError \/ RetryFires \/ ChangeProps \/ Unmount \/ Tick
    \/ Render \/ Wait
SpecView == InitTracker /\ [][NextView]_vars

\* ------------------------------------------------------------------------
\* LocationMapper near the mapped nodes
\* ------------------------------------------------------------------------
\* what the position source reports: accurate samples without a timestamp
\* from the coordinate of ENTRY, from that of node1 and from a point between
\* the two that is within the tolerance of neither
MapperPositions ==
  [ll : {<<2503, 3655>>, <<2518, 3488>>, <<2532, 3321>>},
   accuracy : {<<5>>},
   timestamp : {0}]

InitMapper ==
  /\ InitTracker
  /\ component = "LocationMapper"

\* onSuccess(p) for a sample of that source
MapperSample == \E w \in watches, p \in MapperPositions : Handle(w, p)

NextMapper == MapperSample \/ Unmount
SpecMapper == InitMapper /\ [][NextMapper]_vars

\* ------------------------------------------------------------------------
\* EnhancedNavigator                     components/EnhancedNavigator.jsx
\* ------------------------------------------------------------------------
\* the period of the navigation interval, in milliseconds
IntervalMs == 1000
\* the arrival radius, in metres
ArrivalMeters == 10

\* the buildings of the destination selector and the coordinate of their
\* entrance node, on a street that runs along one line of latitude
NavEntrance ==
  << <<"BUILDING_1", <<0, 0>> >>, <<"BUILDING_2", <<0, 400>> >> >>
\* what the position source reports: 30 m, 12 m and 5 m from the entrance of
\* BUILDING_1
NavPositions == {<<0, 300>>, <<0, 120>>, <<0, 50>>}

\* computeRoute({ userCoord, destBuildingId }) is imported from
\* ../routing/computeRoute: the call fails (ok false, or a throw that
\* calculateRoute catches) or gives a route whose polyline ends at the
\* entrance of the destination
RouteResults(userCoord, destBuildingId) ==
  IF userCoord = NoPos \/ destBuildingId = Null THEN {[ok |-> FALSE, polyline |-> << >>]}
  ELSE LET entrance == Lookup(NavEntrance, destBuildingId)
       IN {[ok |-> FALSE, polyline |-> << >>],
           [ok |-> TRUE, polyline |-> <<entrance>>],
           [ok |-> TRUE, polyline |-> <<(<<0, 300>>), entrance>>],
           [ok |-> TRUE, polyline |-> <<(<<0, 300>>), (<<0, 200>>), entrance>>]}

\* the forEach of updateNavigation: the index (from 0) of the first polyline
\* point at the least distance from the user, and that distance
RECURSIVE ClosestPoint(_, _, _, _, _)
ClosestPoint(userPos, polyline, index, closestStep, minDistance) ==
  IF index > Len(polyline)
    THEN [closestStep |-> closestStep, minDistance |-> minDistance]
    ELSE LET distance == DistMeters(userPos, polyline[index])
         IN IF distance < minDistance
              THEN ClosestPoint(userPos, polyline, index + 1, index - 1, distance)
              ELSE ClosestPoint(userPos, polyline, index + 1, closestStep,
                                minDistance)

\* closestStep >= currentRoute.polyline.length - 1 && minDistance < 10
HasArrived(userPos, route) ==
  LET c == ClosestPoint(userPos, route.polyline, 1, 0, Infinity)
  IN c.closestStep >= Len(route.polyline) - 1
     /\ c.minDistance < ArrivalMeters * CmPerMeter

\* the navigation effect after a render in which one of isNavigating,
\* currentRoute, userPosition is another value or another object: the cleanup
\* clears the interval of the render before, the effect sets a new one
NavigationEffect(nav) ==
  [nav EXCEPT !.interval =
     IF ~nav.isNavigating \/ nav.currentRoute = NoRoute \/ nav.userPosition = NoPos
       THEN NoInterval
       ELSE [pending |-> TRUE, left |-> IntervalMs]]

\* calculateRoute() with the result computeRoute gives
CalculateRoute(nav, route) ==
  IF nav.userPosition = NoPos \/ nav.destination = Null \/ ~route.ok THEN nav
  ELSE [nav EXCEPT !.currentRoute = <<route>>, !.currentStep = 0]

\* the state updates of handleDestinationSelect, navigation left running
SelectedStillNavigating(nav, building) ==
  [nav EXCEPT !.destination = building, !.currentRoute = NoRoute,
              !.showDirections = FALSE]
\* the state updates of handleDestinationSelect(building)
Selected(nav, building) ==
  [nav EXCEPT !.destination = building, !.currentRoute = NoRoute,
              !.isNavigating = FALSE, !.showDirections = FALSE]

InitNavigator ==
  /\ RoutingIdle
  /\ TrackerIdle
  /\ enhancedNavigator = NavigatorMounted
  /\ pathTester = NoScreen

\* the interval has run out: its callback is the next thing to run
NavigationDue ==
  enhancedNavigator.interval.pending /\ enhancedNavigator.interval.left = 0

NavigatorDoes(nav, handler) ==
  /\ enhancedNavigator' = [nav EXCEPT !.last = handler]
  /\ UNCHANGED <<routingVars, trackerVars, pathTester>>

\* the success callback of the watch of the inner LocationWatcher:
\* onPositionUpdate is setUserPosition, the position is a new object.  The
\* route effect runs calculateRoute, the navigation effect runs again.
PositionUpdate ==
  \E p \in NavPositions :
  \E route \in RouteResults(p, enhancedNavigator.destination) :
    /\ enhancedNavigator.mounted
    /\ ~NavigationDue
    /\ NavigatorDoes(
         NavigationEffect(
           CalculateRoute([enhancedNavigator EXCEPT !.userPosition = p], route)),
         "setUserPosition")

\* onChange of the destination selector, whose value is destination.id: the
\* event comes for a building other than the selected one.  The route effect
\* runs calculateRoute for the new destination.
HandleDestinationSelect ==
  \E building \in KeySet(NavEntrance) \ {enhancedNavigator.destination} :
  \E route \in RouteResults(enhancedNavigator.userPosition, building) :
    /\ enhancedNavigator.mounted
    /\ ~NavigationDue
    /\ NavigatorDoes(
         NavigationEffect(
           CalculateRoute(Selected(enhancedNavigator, building), route)),
         "handleDestinationSelect")

\* the buttons of NavigationUI are rendered when navigating or with a route
NavigationUIShown ==
  enhancedNavigator.isNavigating \/ enhancedNavigator.currentRoute # NoRoute

\* handleStartNavigation, the onClick of the button rendered while not
\* navigating
HandleStartNavigation ==
  /\ enhancedNavigator.mounted
  /\ ~NavigationDue
  /\ NavigationUIShown
  /\ ~enhancedNavigator.isNavigating
  /\ NavigatorDoes(
       IF enhancedNavigator.currentRoute = NoRoute THEN enhancedNavigator
       ELSE NavigationEffect([enhancedNavigator EXCEPT !.isNavigating = TRUE,
                                                       !.showDirections = TRUE]),
       "handleStartNavigation")

\* handleStopNavigation, the onClick of the button rendered while navigating
HandleStopNavigation ==
  /\ enhancedNavigator.mounted
  /\ ~NavigationDue
  /\ NavigationUIShown
  /\ enhancedNavigator.isNavigating
  /\ NavigatorDoes(
       NavigationEffect([enhancedNavigator EXCEPT !.isNavigating = FALSE,
                                                  !.showDirections = FALSE]),
       "handleStopNavigation")

\* handleRecalculateRoute: a route that is ok is a new object, and the
\* navigation effect runs again; otherwise nothing is set
HandleRecalculateRoute ==
  \E route \in RouteResults(enhancedNavigator.userPosition,
                            enhancedNavigator.destination) :
    /\ enhancedNavigator.mounted
    /\ ~NavigationDue
    /\ NavigationUIShown
    /\ NavigatorDoes(
         IF route.ok
           THEN NavigationEffect(CalculateRoute(enhancedNavigator, route))
           ELSE enhancedNavigator,
         "handleRecalculateRoute")

\* half a period passes with an interval pending that has not run out
NavigatorWaits ==
  /\ enhancedNavigator.mounted
  /\ enhancedNavigator.interval.pending
  /\ enhancedNavigator.interval.left > 0
  /\ enhancedNavigator' =
       [enhancedNavigator EXCEPT !.interval.left = @ - IntervalMs \div 2]
  /\ UNCHANGED <<routingVars, trackerVars, pathTester>>

\* the callback of the interval: updateNavigation() with the route and the
\* position of the render that set the interval, which are the current ones,
\* as the effect runs again whenever one of them changes.  On arrival the
\* cleanup of the effect clears the interval; otherwise it runs on.
UpdateNavigation ==
  /\ enhancedNavigator.mounted
  /\ NavigationDue
  /\ \E route \in {enhancedNavigator.currentRoute[1]} :
     \E c \in {ClosestPoint(enhancedNavigator.userPosition, route.polyline, 1, 0,
                            Infinity)} :
       NavigatorDoes(
         IF HasArrived(enhancedNavigator.userPosition, route)
           THEN NavigationEffect([enhancedNavigator EXCEPT
                                    !.currentStep = c.closestStep,
                                    !.isNavigating = FALSE])
           ELSE [enhancedNavigator EXCEPT !.currentStep = c.closestStep,
                                          !.interval.left = IntervalMs],
         "updateNavigation")

NextNavigator ==
  \/ PositionUpdate
  \/ HandleDestinationSelect
  \/ HandleStartNavigation
  \/ HandleStopNavigation
  \/ HandleRecalculateRoute
  \/ NavigatorWaits
  \/ UpdateNavigation
SpecNavigator == InitNavigator /\ [][NextNavigator]_vars
\* time passes and a timer that has run out fires
SpecNavigatorTimed ==
  /\ SpecNavigator
  /\ WF_vars(NavigatorWaits)
  /\ WF_vars(UpdateNavigation)

\* ------------------------------------------------------------------------
\* PathTester                                   components/PathTester.jsx
\* ------------------------------------------------------------------------
\* number of intervals the browser hands out to the tester
MaxWalks == 3

\* testPath
TestPath == <<"ENTRY", "node1", "node2", "node8", "node24">>
\* coordinateMapping[nodeId] is there
IsMapped(nodeId) == Has(CoordinateMapping, nodeId)
\* pathCoordinates: the realGPS of the mapped nodes of testPath
PathCoordinates ==
  LET mapped == SelectSeq(TestPath, IsMapped)
  IN [i \in 1..Len(mapped) |-> Get(CoordinateMapping, mapped[i]).realGPS]

\* the state updates of stopWalking, the interval left running
StoppedStillTicking(t) == [t EXCEPT !.isWalking = FALSE]
\* the state updates of stopWalking()
Stopped(t) ==
  IF t.intervalRef # NoId
    THEN [t EXCEPT !.isWalking = FALSE,
                   !.intervals = @ \ {t.intervalRef},
                   !.intervalRef = NoId]
    ELSE [t EXCEPT !.isWalking = FALSE]

\* the updater that the callback of the interval passes to setCurrentStep,
\* with what it sets and reports on the way
Stepped(t) ==
  LET nextStep == t.currentStep + 1
  IN IF nextStep >= Len(PathCoordinates)
       THEN [t EXCEPT !.isWalking = FALSE,
                      !.intervals = @ \ {t.intervalRef},
                      !.event = [type |-> "completed", step |-> 0,
                                 nodeId |-> Null]]
       ELSE [t EXCEPT !.currentStep = nextStep,
                      !.currentPosition = PathCoordinates[nextStep + 1],
                      !.testResults =
                         Append(@, [step |-> nextStep + 1,
                                    nodeId |-> TestPath[nextStep + 1]]),
                      !.event = [type |-> "step", step |-> nextStep + 1,
                                 nodeId |-> TestPath[nextStep + 1]]]

InitTester ==
  /\ RoutingIdle
  /\ TrackerIdle
  /\ enhancedNavigator = NoScreen
  /\ pathTester = TesterMounted

TesterDoes(t, handler) ==
  /\ pathTester' = [t EXCEPT !.last = handler]
  /\ UNCHANGED <<routingVars, trackerVars, enhancedNavigator>>

\* startWalking, the onClick of the button rendered while not walking
StartWalking ==
  /\ pathTester.mounted
  /\ ~pathTester.isWalking
  /\ pathTester.lastIntervalId < MaxWalks
  /\ TesterDoes(
       IF Len(PathCoordinates) = 0 THEN pathTester
       ELSE [pathTester EXCEPT
               !.isWalking = TRUE,
               !.currentStep = 0,
               !.currentPosition = PathCoordinates[1],
               !.testResults = << >>,
               !.lastIntervalId = @ + 1,
               !.intervalRef = pathTester.lastIntervalId + 1,
               !.intervals = @ \cup {pathTester.lastIntervalId + 1}],
       "startWalking")

\* the callback of an interval that is set and not cleared
WalkTick ==
  \E id \in pathTester.intervals :
    TesterDoes(Stepped(pathTester), "tick")

\* stopWalking, the onClick of the button rendered while walking
StopWalking ==
  /\ pathTester.mounted
  /\ pathTester.isWalking
  /\ TesterDoes(Stopped(pathTester), "stopWalking")

\* resetTest, the onClick of a button that is disabled while walking
ResetTest ==
  /\ pathTester.mounted
  /\ ~pathTester.isWalking
  /\ TesterDoes([Stopped(pathTester) EXCEPT !.currentStep = 0,
                                            !.currentPosition = NoPos,
                                            !.testResults = << >>],
                "resetTest")

\* the cleanup of the effect, when the module is switched off
TesterUnmount ==
  /\ pathTester.mounted
  /\ TesterDoes([pathTester EXCEPT !.mounted = FALSE,
                                   !.intervals = @ \ {pathTester.intervalRef}],
                "unmount")

NextTester == StartWalking \/ WalkTick \/ StopWalking \/ ResetTest \/ TesterUnmount
\* an interval that stays set fires
SpecTester == InitTester /\ [][NextTester]_vars /\ WF_vars(WalkTick)

\* ------------------------------------------------------------------------
\* Properties
\* ------------------------------------------------------------------------
Min(S) == CHOOSE m \in S : \A n \in S : m <= n

\* graph[u][v], Infinity when u and v are not linked
Weight(graph, u, v) ==
  IF Has(graph, u) /\ Has(Get(graph, u), v) THEN Get(Get(graph, u), v)
  ELSE Infinity

\* the least total weight of a walk of at most k links from start to each
\* node of K, for the weights W
RECURSIVE LeastWalk(_, _, _, _)
LeastWalk(W, K, start, k) ==
  IF k = 0 THEN [v \in K |-> IF v = start THEN 0 ELSE Infinity]
  ELSE LET d == LeastWalk(W, K, start, k - 1)
       IN [v \in K |->
             Min({d[v]} \cup
                 {d[u] + W[u][v] :
                    u \in {x \in K : d[x] < Infinity /\ W[x][v] < Infinity}})]

\* the least total weight of all walks from start to goal (keys of graph):
\* with weights >= 0 a lightest walk needs no node twice
MinDistance(graph, start, goal) ==
  LET K == KeySet(graph)
      W == [u \in K |-> [v \in K |-> Weight(graph, u, v)]]
  IN LeastWalk(W, K, start, Cardinality(K) - 1)[goal]

\* the nodes a walk from start can end in
RECURSIVE ReachFrom(_, _)
ReachFrom(graph, seen) ==
  LET more == seen \cup
                UNION {KeySet(Get(graph, u)) : u \in seen \cap KeySet(graph)}
  IN IF more = seen THEN seen ELSE ReachFrom(graph, more)
Reachable(graph, start, goal) == goal \in ReachFrom(graph, {start})

RECURSIVE PathWeightFrom(_, _, _)
PathWeightFrom(graph, path, i) ==
  IF i >= Len(path) THEN 0
  ELSE Weight(graph, path[i], path[i + 1]) + PathWeightFrom(graph, path, i + 1)
\* the sum of the weights of the consecutive links of path
PathWeight(graph, path) == PathWeightFrom(graph, path, 1)

\* C1: when start and goal are keys of the adjacency map and goal can be
\* reached from start, the distance dijkstra returns is the least total
\* weight of all walks from start to goal.
C1_ShortestDistance ==
  (/\ call.op = "dijkstra"
   /\ call.start \in KeySet(edges)
   /\ call.goal \in KeySet(edges)
   /\ Reachable(edges, call.start, call.goal))
  => /\ ~call.search.diverged
     /\ Len(call.search.path) > 0
     /\ call.search.distance = MinDistance(edges, call.start, call.goal)

\* the search stopped at the goal with a route of two links or more that
\* beats the direct link between start and goal
C1_Witness ==
  /\ call.op = "dijkstra"
  /\ Len(call.search.path) >= 3
  /\ Weight(edges, call.start, call.goal) < Infinity
  /\ call.search.distance < Weight(edges, call.start, call.goal)

\* C2: the distance dijkstra returns with a path is the sum of the weights
\* of the consecutive links of that path; for start = goal the path is the
\* single node and the distance is 0.
C2_DistanceIsPathSum ==
  (call.op = "dijkstra" /\ Len(call.search.path) > 0)
  => /\ call.search.distance = PathWeight(edges, call.search.path)
     /\ call.start = call.goal
          => call.search.path = <<call.goal>> /\ call.search.distance = 0

\* a path of three nodes or more of positive length was returned
C2_Witness ==
  /\ call.op = "dijkstra"
  /\ Len(call.search.path) >= 3
  /\ call.search.distance > 0
  /\ call.search.distance < Infinity

IsRoute == call.op = "computeRoute"
Returned == IsRoute /\ call.outcome = "returned"
Succeeded == Returned /\ call.result.ok
NoPathFound == [ok |-> FALSE, error |-> <<"No path found">>]
NoEntranceFor(b) == [ok |-> FALSE, error |-> <<"No entrance node for ", b>>]

\* C3: the search of computeRoute reports no path (empty sequence, infinite
\* distance) exactly when origin and destination differ and the destination
\* cannot be reached from the origin in the graph searched; computeRoute
\* then returns the failure "No path found", and a route it returns as
\* successful is never empty and runs from the origin to the destination.
C3_NoPathIffUnreachable ==
  (IsRoute /\ call.searched)
  => LET s == call.search
         noPath == s.path = << >> /\ s.distance = Infinity
     IN /\ ~s.diverged
        /\ (Len(s.path) = 0) = noPath
        /\ noPath = (/\ call.originNodeId # call.destNodeId
                     /\ ~Reachable(call.g, call.originNodeId, call.destNodeId))
        /\ noPath => Returned /\ call.result = NoPathFound
        /\ Succeeded
             => /\ call.result.pathNodeIds = s.path
                /\ Len(s.path) > 0
                /\ s.path[1] = call.originNodeId
                /\ s.path[Len(s.path)] = call.destNodeId

\* origin and destination both have links, and still no path joins them
C3_Witness ==
  /\ IsRoute /\ call.searched
  /\ call.originNodeId \in KeySet(call.g)
  /\ call.destNodeId \in KeySet(call.g)
  /\ call.search.path = << >>
  /\ call.result = NoPathFound

\* the tables are the chain A-B-C: links A-B and B-C only, weighted by the
\* distance between their ends, and the entrance table {X: C}
IsChainABC ==
  /\ KeySet(nodes) = {"A", "B", "C"}
  /\ KeySet(edges) = {"A", "B", "C"}
  /\ KeySet(Get(edges, "A")) = {"B"}
  /\ KeySet(Get(edges, "B")) = {"A", "C"}
  /\ KeySet(Get(edges, "C")) = {"B"}
  /\ \A u \in {"A", "B", "C"} : \A v \in KeySet(Get(edges, u)) :
       Weight(edges, u, v) = HaversineMeters(Get(nodes, u), Get(nodes, v))
  /\ buildingEntrance = << <<"X", "C">> >>

UserInNoPolygon(userCoord) ==
  \A i \in 1..Len(buildingPolygons) :
    ~PointInPolygon(userCoord, buildingPolygons[i][2])

\* C4: on the chain A-B-C with entrance {X: C}, a user exactly at A and in
\* no polygon gets the route A, B, C to X: the rounded sum of the two
\* weights as distance and the coordinates of A, B, C as polyline.
C4_ChainEndToEnd ==
  (/\ IsRoute
   /\ IsChainABC
   /\ call.userCoord = Get(nodes, "A")
   /\ UserInNoPolygon(call.userCoord)
   /\ call.destBuildingId = "X")
  => /\ Succeeded
     /\ call.result.pathNodeIds = <<"A", "B", "C">>
     /\ call.result.distanceMeters =
          RoundMeters(Weight(edges, "A", "B") + Weight(edges, "B", "C"))
     /\ call.result.polyline =
          <<Get(nodes, "A"), Get(nodes, "B"), Get(nodes, "C")>>

\* the straight chain of two 10 m links: 20 m from A to X
C4_Witness ==
  /\ IsRoute
  /\ IsChainABC
  /\ call.userCoord = Get(nodes, "A")
  /\ call.destBuildingId = "X"
  /\ Succeeded
  /\ call.result.distanceMeters = 20
  /\ Len(call.result.polyline) = 3

\* the positions, in table order, of the polygons that hold the user
Containing(userCoord) ==
  {i \in 1..Len(buildingPolygons) :
     PointInPolygon(userCoord, buildingPolygons[i][2])}

\* what the claim says of building b: its exit is the origin, nothing is
\* snapped, and a route returned is flagged as started inside b
StartsAtExitOf(b) ==
  /\ call.originNodeId = Get(buildingExit, b)
  /\ ~call.snapCalled
  /\ call.snap = NoSnap
  /\ Succeeded => /\ call.result.startedInsideBuilding
                  /\ call.result.startBuilding = b
                  /\ call.result.originNodeId = Get(buildingExit, b)
                  /\ call.result.pathNodeIds[1] = Get(buildingExit, b)

\* C5 as stated: for every building b with an exit whose polygon holds the
\* user, the origin is the exit of b.
C5_AnyContainingBuilding ==
  IsRoute
  => \A i \in Containing(call.userCoord) :
       Has(buildingExit, buildingPolygons[i][1])
         => StartsAtExitOf(buildingPolygons[i][1])

\* C5, amended: when the first building, in the order of the polygon table,
\* whose polygon holds the user has an exit, the origin is that exit, nothing
\* is snapped, and a route returned is flagged as started inside it.
C5_FirstContainingBuilding ==
  (IsRoute /\ Containing(call.userCoord) # {})
  => LET b == buildingPolygons[Min(Containing(call.userCoord))][1]
     IN Has(buildingExit, b) => StartsAtExitOf(b)

\* a route from inside two overlapping buildings, the first of them with an
\* exit that is not the node nearest to the user
C5_Witness ==
  /\ Succeeded
  /\ Cardinality(Containing(call.userCoord)) >= 2
  /\ call.result.startedInsideBuilding
  /\ BestNode(call.userCoord, nodes).id # call.originNodeId
  /\ Len(call.result.pathNodeIds) >= 2

\* C6: a user inside a building without exit gets a failure of its own,
\* which is neither the missing entrance nor the missing path.
C6_NoExitDefined ==
  (/\ IsRoute
   /\ Containing(call.userCoord) # {}
   /\ ~Has(buildingExit, buildingPolygons[Min(Containing(call.userCoord))][1]))
  => /\ Returned
     /\ ~call.result.ok
     /\ call.result # NoPathFound
     /\ call.result # NoEntranceFor(call.destBuildingId)

\* C7: a destination without entry in the entrance table gets the failure
\* naming it, whatever the user coordinate, and no search is made.
C7_NoEntranceDefined ==
  (IsRoute /\ ~Has(buildingEntrance, call.destBuildingId))
  => /\ Returned
     /\ call.result = NoEntranceFor(call.destBuildingId)
     /\ ~call.searched
     /\ call.search = NoSearch

\* the origin was resolved, here onto an edge, before the entrance is missed
C7_Witness ==
  /\ IsRoute
  /\ ~Has(buildingEntrance, call.destBuildingId)
  /\ call.snap.type = "virtual"
  /\ call.result = NoEntranceFor(call.destBuildingId)

\* C8: computeRoute always returns a value tagged ok = true or ok = false:
\* it neither raises nor loops.
C8_AlwaysTagged ==
  IsRoute => /\ call.outcome = "returned"
             /\ call.result.ok \in BOOLEAN

\* the failures the claim lists: an empty node table, a user inside a
\* building without exit, an origin without links
C8_Witness ==
  /\ Returned
  /\ call.searched
  /\ ~call.result.ok
  /\ \/ nodes = << >>
     \/ call.originNodeId = Undefined
     \/ call.originNodeId \notin KeySet(call.g)

\* a result with the virtual node id masked where the origin stands: in
\* originNodeId and at the head of pathNodeIds
MaskVirtual(id) == IF StartsWithVirtual(id) THEN "VIRTUAL" ELSE id
MaskOrigin(r) ==
  IF "ok" \in DOMAIN r /\ r.ok
    THEN [r EXCEPT !.originNodeId = MaskVirtual(@),
                   !.pathNodeIds = [i \in 1..Len(@) |->
                                      IF i = 1 THEN MaskVirtual(@[i]) ELSE @[i]]]
    ELSE r

C10_SharedGraphUntouched ==
  /\ \E w \in Worlds : nodes = w.nodes /\ edges = EdgesOf(w)
  /\ KeySet(nodes) \cap VirtualIds = {}
  /\ KeySet(edges) \cap VirtualIds = {}
  /\ \A i \in 1..Len(edges) : KeySet(edges[i][2]) \cap VirtualIds = {}

\* a search was made on a graph augmented with a virtual node
C10_Witness ==
  /\ IsRoute /\ call.searched
  /\ call.snap.type = "virtual"
  /\ Has(call.g, call.snap.nodeId)
  /\ call.g # edges

\* ------------------------------------------------------------------------
\* snapToGraph
\* ------------------------------------------------------------------------
IsSnap == call.op = "snapToGraph"

\* the distance from coord to every node of the table
NodeDistances(coord) ==
  {HaversineMeters(coord, nodes[i][2]) : i \in 1..Len(nodes)}

\* the links of the adjacency map between two nodes of the table, once each
Links ==
  {ab \in KeySet(edges) \X KeySet(nodes) :
     /\ ab[1] \in KeySet(nodes)
     /\ ab[2] \in KeySet(Get(edges, ab[1]))
     /\ StrLess(ab[1], ab[2])}

\* the point of the link (a, b) nearest to coord
PointOnLink(coord, a, b) ==
  LET cA == Get(nodes, a)
      cB == Get(nodes, b)
      proj == ProjectPointToSegment(ToXY(coord.lat, coord.lng, coord.lat),
                                    ToXY(cA.lat, cA.lng, coord.lat),
                                    ToXY(cB.lat, cB.lng, coord.lat))
  IN XyToLatLng(proj.x, proj.y, coord.lat)

LinkDistances(coord) ==
  {HaversineMeters(coord, PointOnLink(coord, ab[1], ab[2])) : ab \in Links}

\* C11: snapToGraph returns a virtual attachment exactly when the graph
\* has a link and the distance to the nearest point of the nearest link
\* plus 0.1 m is strictly less than the distance to the nearest node; the
\* attachment is then on a link at the least distance of all links, at
\* its point nearest to the coordinate.  Otherwise (no link, equality
\* included) it returns an existing node at the least distance of all
\* nodes.
C11_SnapDecision ==
  IsSnap =>
    LET coord == call.coord
        snap == call.snap
        closer == /\ Links # {}
                  /\ Min(LinkDistances(coord)) + SnapMargin
                       < Min(NodeDistances(coord))
    IN /\ snap.type \in {"virtual", "node"}
       /\ snap.type = "virtual" <=> nodes # << >> /\ closer
       /\ snap.type = "virtual" =>
            /\ <<snap.attach.a, snap.attach.b>> \in Links
            /\ snap.coord = PointOnLink(coord, snap.attach.a, snap.attach.b)
            /\ HaversineMeters(coord, snap.coord) = Min(LinkDistances(coord))
            /\ snap.nodeId \in VirtualIds
       /\ (snap.type = "node" /\ nodes # << >>) =>
            /\ Has(nodes, snap.nodeId)
            /\ snap.coord = Get(nodes, snap.nodeId)
            /\ HaversineMeters(coord, snap.coord) = Min(NodeDistances(coord))

\* the case of equality: a link 0.4 m away, the nearest node 0.5 m away
C11_Witness ==
  /\ IsSnap
  /\ Links # {}
  /\ Min(LinkDistances(call.coord)) + SnapMargin = Min(NodeDistances(call.coord))
  /\ Min(LinkDistances(call.coord)) > 0
  /\ call.snap.type = "node"

\* a virtual attachment where several links compete
C11_WitnessOnEdge ==
  /\ IsSnap
  /\ Cardinality(LinkDistances(call.coord)) > 1
  /\ call.snap.type = "virtual"

\* a graph with nodes and no link
C11_WitnessNoEdge ==
  /\ IsSnap
  /\ nodes # << >> /\ Links = {}
  /\ call.snap.type = "node"

\* the nodes of the table at the coordinate
NodesAt(coord) == {nodes[i][1] : i \in {j \in 1..Len(nodes) : nodes[j][2] = coord}}

\* the first node of the table at the coordinate
FirstNodeAt(coord) ==
  nodes[Min({j \in 1..Len(nodes) : nodes[j][2] = coord})][1]

\* C12 (as stated): snapping the coordinate of a node n returns the node
\* n itself, for every node n at that coordinate.
C12_EveryNodeAtCoordinate ==
  IsSnap => \A n \in NodesAt(call.coord) :
              call.snap.type = "node" /\ call.snap.nodeId = n

\* C12: snapping a coordinate at which the table has a node returns an
\* existing node, never a virtual attachment: the first node of the table
\* at that coordinate, with that coordinate; it is n itself when n is the
\* only node there.
C12_FirstNodeAtCoordinate ==
  (IsSnap /\ NodesAt(call.coord) # {}) =>
    /\ call.snap.type = "node"
    /\ call.snap.nodeId = FirstNodeAt(call.coord)
    /\ call.snap.coord = call.coord

\* the coordinate shared by two node ids is snapped, next to their links
C12_Witness ==
  /\ IsSnap
  /\ Cardinality(NodesAt(call.coord)) = 2
  /\ Links # {}
  /\ call.snap.type = "node"
  /\ call.snap.nodeId = FirstNodeAt(call.coord)

\* ------------------------------------------------------------------------
\* Position filter
\* ------------------------------------------------------------------------
\* the handler that ran last is onSuccess
IsFix == fix.op = "onSuccess"
Accepted == IsFix /\ fix.verdict = "accepted"
\* the age of the sample of the fix; a sample without timestamp has age 0
Age == IF fix.p.timestamp = 0 THEN 0 ELSE fix.clock - fix.p.timestamp
\* the timestamp of the sample of the fix
SampleTime == IF fix.p.timestamp = 0 THEN fix.clock ELSE fix.p.timestamp
\* the sample of the fix passed the staleness gate and the accuracy gate
Fresh == IsFix /\ Age <= fix.scope.props.staleMs
GoodAccuracy ==
  fix.p.accuracy = NoAccuracy \/ fix.p.accuracy[1] <= fix.scope.props.accuracyMax
\* the sample of the fix changed nothing and nothing was emitted
Discarded ==
  /\ pos = fix.before.pos
  /\ acc = fix.before.acc
  /\ lastRawRef = fix.before.lastRaw
  /\ retryTimeoutRef = fix.before.retryTimeoutRef
  /\ fix.emitted = NoPos
\* the blend of the parameters from the position a to the sample b
Blend(a, b, ema) == <<Ema(a[1], b[1], ema), Ema(a[2], b[2], ema)>>

\* C13 (as stated): an accepted sample that is not the first accepted one
\* of its session is emitted as previous_smoothed + alpha * (raw -
\* previous_smoothed), latitude and longitude each, previous_smoothed being
\* the position emitted for the accepted sample before it.
C13_EmaOfPreviousSmoothed ==
  (Accepted /\ ~fix.first /\ ~fix.stopped)
  => fix.emitted = Blend(fix.before.pos, fix.p.ll, fix.scope.props.ema)

\* what the code does in the session begun at mount: every accepted sample
\* is emitted raw, because the handler reads the pos of the first render
C13_FirstSessionEmitsRaw ==
  (Accepted /\ session.no = 1) => fix.emitted = fix.p.ll

\* C14 (as stated): the first sample accepted in a tracking session is
\* emitted exactly as the raw sample.
C14_FirstAcceptedIsRaw ==
  (Accepted /\ fix.first /\ ~fix.stopped) => fix.emitted = fix.p.ll

\* C19 (as stated): when tracking was stopped and started again, the
\* filter is uninitialized: no last accepted raw sample and no smoothed
\* position of the session before is carried over.
C19_UninitializedAfterRestart ==
  fix.op = "changeProps"
  => /\ lastRawRef = NoLastRaw
     /\ \A w \in watches : w.id = watchIdRef => w.scope.pos = NoPos

\* C20 (as stated): once tracking is stopped no watch of the tracker is
\* registered and no retry timer is pending, no sample is processed after
\* the stop, and at every moment at most one watch is registered.
C20_NothingLeftAfterStop ==
  /\ ~mounted => watches = {} /\ timers = {}
  /\ IsFix => ~fix.stopped
  /\ Cardinality(watches) <= 1

\* LocationWatcher, which has no retry, leaves nothing behind
C20_WatcherLeavesNothing ==
  component = "LocationWatcher"
  => /\ ~mounted => watches = {} /\ timers = {}
     /\ Cardinality(watches) <= 1

\* C15: a sample older than the staleness threshold is discarded: the
\* smoothed position, the stored accuracy and the last accepted raw sample
\* are unchanged and onMove is not called.
C15_StaleDiscarded ==
  (IsFix /\ Age > fix.scope.props.staleMs)
  => fix.verdict = "stale" /\ Discarded

\* a stale sample arrives after a sample was accepted
C15_Witness ==
  /\ IsFix /\ fix.verdict = "stale"
  /\ Age > fix.scope.props.staleMs
  /\ fix.before.pos # NoPos
  /\ fix.before.lastRaw # NoLastRaw
  /\ pos = fix.before.pos

\* C16: a fresh sample with an accuracy above accuracyMax is discarded;
\* a sample without accuracy is never rejected by the accuracy gate.
C16_AccuracyGate ==
  Fresh
  => /\ ~GoodAccuracy => fix.verdict = "lowAccuracy" /\ Discarded
     /\ fix.p.accuracy = NoAccuracy => fix.verdict # "lowAccuracy"
     /\ fix.verdict = "lowAccuracy" => ~GoodAccuracy

\* an inaccurate sample arrives after a sample was accepted
C16_Witness ==
  /\ Fresh /\ fix.verdict = "lowAccuracy"
  /\ fix.p.accuracy # NoAccuracy
  /\ fix.before.pos # NoPos
  /\ pos = fix.before.pos

\* the sample of the fix is farther from the last accepted raw sample than
\* the jump guard allows: d > jumpGuard * dt + 15 with dt in seconds, one
\* second at least and one second for a timestamp not after the last one
TooFar ==
  LET prev == fix.before.lastRaw
      ms == IF SampleTime <= prev.t + MsPerSecond THEN MsPerSecond
            ELSE SampleTime - prev.t
  IN DistMeters(prev.ll, fix.p.ll) * MsPerSecond
       > fix.scope.props.jumpGuard * ms * CmPerMeter
         + SlackMeters * CmPerMeter * MsPerSecond

\* C17: with a last accepted raw sample, a sample that passed the two
\* gates is discarded when it is too far from it, and is not rejected by
\* the jump guard otherwise.
C17_JumpGuard ==
  (Fresh /\ GoodAccuracy /\ fix.before.lastRaw # NoLastRaw)
  => /\ fix.verdict = "jump" <=> TooFar
     /\ TooFar => Discarded
     /\ ~TooFar => fix.verdict = "accepted"

\* a sample with a timestamp before the last accepted one is rejected
C17_Witness ==
  /\ IsFix /\ fix.verdict = "jump"
  /\ fix.before.lastRaw # NoLastRaw
  /\ SampleTime < fix.before.lastRaw.t
  /\ TooFar
  /\ lastRawRef = fix.before.lastRaw

\* the same move is accepted when more than a second has passed
C17_WitnessAccepted ==
  /\ Accepted
  /\ fix.before.lastRaw # NoLastRaw
  /\ fix.before.lastRaw.ll # fix.p.ll
  /\ SampleTime > fix.before.lastRaw.t + MsPerSecond

\* C18: an accepted sample makes the last accepted raw sample exactly its
\* raw coordinate and its timestamp, never the smoothed coordinate; a
\* rejected sample leaves it unchanged.
C18_LastRawIsRaw ==
  IsFix
  => IF fix.verdict = "accepted"
       THEN lastRawRef = [ll |-> fix.p.ll, t |-> SampleTime]
       ELSE lastRawRef = fix.before.lastRaw

\* an accepted sample whose smoothed coordinate differs from the raw one
C18_Witness ==
  /\ Accepted
  /\ fix.emitted # fix.p.ll
  /\ lastRawRef.ll = fix.p.ll
  /\ lastRawRef # fix.before.lastRaw

\* ------------------------------------------------------------------------
\* Graph tables as computeRoute receives them
\* ------------------------------------------------------------------------
\* C21: no table whose entrance or exit refers to a node id missing from the
\* node table is ever available to computeRoute: building such a graph fails
\* with InvalidGraphReference, so every call of computeRoute runs on tables
\* whose references all resolve.
C21_NoDanglingReference ==
  IsRoute => \A id \in ReferencedIds : Has(nodes, id)

\* the pairs (a, b) registered in an adjacency map
Registered(adj) ==
  UNION {{<<a, b>> : b \in KeySet(Get(adj, a))} : a \in KeySet(adj)}

\* C22: in the adjacency map built from the chain and the extra links every
\* registered edge (a, b) is registered as (b, a) with the same weight, the
\* weight is the geodesic distance between the two nodes, a is not b, and
\* both are ids of the node table.
C22_EdgesSymmetricGeodesic ==
  \A e \in Registered(edges) :
    LET a == e[1]
        b == e[2]
    IN /\ Has(nodes, a) /\ Has(nodes, b)
       /\ a # b
       /\ Has(edges, b) /\ Has(Get(edges, b), a)
       /\ Get(Get(edges, a), b) = Get(Get(edges, b), a)
       /\ Get(Get(edges, a), b) = HaversineMeters(Get(nodes, a), Get(nodes, b))

\* a map built from a chain and from extra links, searched by a route that
\* walks over both kinds of edge
C22_Witness ==
  /\ Succeeded
  /\ Cardinality(Registered(edges)) >= 10
  /\ \E i \in 1..Len(call.result.pathNodeIds) - 2 :
       /\ call.result.pathNodeIds[i] = "D"
       /\ call.result.pathNodeIds[i + 1] = "C"
       /\ call.result.pathNodeIds[i + 2] = "E"

\* ------------------------------------------------------------------------
\* Snapping the midpoint of an edge
\* ------------------------------------------------------------------------
\* the links whose midpoint is coord, no node being within 0.1 m of it
MidpointLinks(coord) ==
  {ab \in Links :
     /\ Midpoint(Get(nodes, ab[1]), Get(nodes, ab[2])) = coord
     /\ 2 * coord.lat = Get(nodes, ab[1]).lat + Get(nodes, ab[2]).lat
     /\ 2 * coord.lng = Get(nodes, ab[1]).lng + Get(nodes, ab[2]).lng
     /\ \A d \in NodeDistances(coord) : d > SnapMargin}

\* the links that pass through coord, in the order the edge loop visits them
LinksThrough(coord) ==
  LET pairs == EdgePairs(edges, 1, << >>)
  IN SelectSeq(pairs, LAMBDA ab : /\ ab \in Links
                                  /\ PointOnLink(coord, ab[1], ab[2]) = coord)

IsHalf(t) == 2 * t.num = t.den

C23_WitnessAlone ==
  /\ IsSnap
  /\ \E ab \in MidpointLinks(call.coord) :
       /\ call.snap.attach = [a |-> ab[1], b |-> ab[2]]
       /\ IsHalf(call.bestEdge.t)
       /\ Get(nodes, ab[1]).lat # Get(nodes, ab[2]).lat
       /\ Get(nodes, ab[1]).lng # Get(nodes, ab[2]).lng

\* ------------------------------------------------------------------------
\* The mark on an outdated position
\* ------------------------------------------------------------------------
\* a position has been emitted and the component is mounted
Emitted == mounted /\ pos # NoPos /\ lastAcceptedAt > 0
\* no sample has been accepted for longer than twice the stale threshold
LongSinceAccepted == now - lastAcceptedAt > 2 * props.staleMs

\* C24: whenever no sample has been accepted for longer than twice the
\* stale threshold, what the component shows marks the last emitted
\* position as possibly outdated, the position itself being kept as it
\* is; the mark is absent while the last acceptance is more recent.
C24_StaleMarked ==
  Emitted =>
    /\ LongSinceAccepted => view.marked /\ view.pos = pos
    /\ now - lastAcceptedAt < 2 * props.staleMs => ~view.marked

\* ------------------------------------------------------------------------
\* The graph searched
\* ------------------------------------------------------------------------
\* the origin of the call is a virtual node on an edge
OnEdge == IsRoute /\ call.snapCalled /\ call.snap.type = "virtual"
\* the neighbours of x in an adjacency map
Nbrs(adj, x) == IF Has(adj, x) THEN KeySet(Get(adj, x)) ELSE {}

\* C25: with an origin on an edge (a, b) the graph searched is the base
\* graph plus exactly one new node v, linked both ways with a at the
\* geodesic distance from the snapped coordinate to a and with b at that to
\* b; every base edge, the direct edge (a, b) among them, keeps its weight.
\* With an existing node as origin the graph searched is the base graph.
C25_SearchedGraph ==
  (IsRoute /\ call.searched) =>
    IF OnEdge
      THEN LET v == call.snap.nodeId
               a == call.snap.attach.a
               b == call.snap.attach.b
               dA == HaversineMeters(call.snap.coord, Get(nodes, a))
               dB == HaversineMeters(call.snap.coord, Get(nodes, b))
           IN /\ ~Has(edges, v)
              /\ KeySet(call.g) = KeySet(edges) \cup {v}
              /\ Nbrs(call.g, v) = {a, b}
              /\ v \in Nbrs(call.g, a) /\ v \in Nbrs(call.g, b)
              /\ Get(Get(call.g, v), a) = dA /\ Get(Get(call.g, a), v) = dA
              /\ Get(Get(call.g, v), b) = dB /\ Get(Get(call.g, b), v) = dB
              /\ \A x \in KeySet(edges) :
                   /\ Nbrs(call.g, x) \ {v} = Nbrs(edges, x)
                   /\ v \in Nbrs(call.g, x) <=> x \in {a, b}
                   /\ \A y \in Nbrs(edges, x) :
                        Get(Get(call.g, x), y) = Get(Get(edges, x), y)
              /\ b \in Nbrs(call.g, a) /\ a \in Nbrs(call.g, b)
      ELSE call.g = edges

\* a route from a virtual node strictly inside an edge, both links of the
\* virtual node having a positive weight
C25_Witness ==
  /\ Succeeded
  /\ OnEdge
  /\ Get(Get(call.g, call.snap.nodeId), call.snap.attach.a) > 0
  /\ Get(Get(call.g, call.snap.nodeId), call.snap.attach.b) > 0
  /\ Cardinality(KeySet(edges)) >= 5

\* a search from an existing node
C25_WitnessNode ==
  /\ Succeeded
  /\ ~OnEdge
  /\ call.snapCalled
  /\ call.g = edges
  /\ Len(call.result.pathNodeIds) >= 2

\* ------------------------------------------------------------------------
\* The route returned
\* ------------------------------------------------------------------------
\* C26: in every successful result the polyline is as long as the node id
\* sequence, its i-th point is the coordinate of the i-th node id (the
\* snapped coordinate for the virtual node, the coordinate of the node
\* table otherwise), and distanceMeters is the total distance of the search
\* rounded to the nearest integer.
C26_PolylineAndDistance ==
  Succeeded =>
    LET r == call.result
        d == call.search.distance
    IN /\ r.pathNodeIds = call.search.path
       /\ Len(r.polyline) = Len(r.pathNodeIds)
       /\ \A i \in 1..Len(r.pathNodeIds) :
            r.polyline[i] =
              IF OnEdge /\ r.pathNodeIds[i] = call.snap.nodeId
                THEN call.snap.coord
                ELSE Get(nodes, r.pathNodeIds[i])
       /\ d - 50 < CmPerMeter * r.distanceMeters
       /\ CmPerMeter * r.distanceMeters <= d + 50

\* a route of several nodes from a virtual node whose length is rounded up
C26_Witness ==
  /\ Succeeded
  /\ OnEdge
  /\ Len(call.result.polyline) >= 3
  /\ call.result.polyline[1] = call.snap.coord
  /\ call.search.distance % CmPerMeter >= 50
  /\ call.result.distanceMeters = call.search.distance \div CmPerMeter + 1

\* ------------------------------------------------------------------------
\* Overlapping building polygons
\* ------------------------------------------------------------------------
\* the buildings whose polygon holds the user, in the order of the table
ContainingIds(userCoord) ==
  [k \in 1..Cardinality(Containing(userCoord)) |->
     buildingPolygons[CHOOSE i \in Containing(userCoord) :
        Cardinality({j \in Containing(userCoord) : j < i}) = k - 1][1]]

\* C27: with the user inside the polygons of several buildings, the origin
\* is the exit of the first of them in the order of the polygon table; the
\* polygons after it are not consulted, so the exits of the other containing
\* buildings play no part.
C27_FirstOfSeveral ==
  (IsRoute /\ Cardinality(Containing(call.userCoord)) >= 2) =>
    LET ids == ContainingIds(call.userCoord)
    IN /\ call.insideBuildingId = ids[1]
       /\ ~call.snapCalled
       /\ call.originNodeId = Lookup(buildingExit, ids[1])
       /\ \A k \in 2..Len(ids) :
            Lookup(buildingExit, ids[k]) # Lookup(buildingExit, ids[1])
              => call.originNodeId # Lookup(buildingExit, ids[k])
       /\ Succeeded => /\ call.result.startBuilding = ids[1]
                       /\ call.result.pathNodeIds[1] = Get(buildingExit, ids[1])

\* a route from inside two buildings that starts at the exit of the first,
\* the second having no exit
C27_Witness ==
  /\ Succeeded
  /\ Len(ContainingIds(call.userCoord)) = 2
  /\ call.result.startBuilding = ContainingIds(call.userCoord)[1]
  /\ Has(buildingExit, ContainingIds(call.userCoord)[1])
  /\ ~Has(buildingExit, ContainingIds(call.userCoord)[2])
  /\ call.result.pathNodeIds[1] = Get(buildingExit, ContainingIds(call.userCoord)[1])

\* the first of two containing buildings has no exit, the second has one:
\* the origin is not taken from the second
C27_WitnessLaterIgnored ==
  /\ IsRoute
  /\ Len(ContainingIds(call.userCoord)) = 2
  /\ ~Has(buildingExit, ContainingIds(call.userCoord)[1])
  /\ Has(buildingExit, ContainingIds(call.userCoord)[2])
  /\ call.originNodeId = Undefined

\* ------------------------------------------------------------------------
\* The node sequence of the search
\* ------------------------------------------------------------------------
IsSearch == call.op = "dijkstra"

\* C28: every non-empty node sequence returned by dijkstra starts with
\* start, ends with goal, holds no node twice, and every two consecutive
\* nodes of it are joined by an edge of the graph searched.
C28_PathWellFormed ==
  (IsSearch /\ ~call.search.diverged /\ Len(call.search.path) > 0) =>
    LET path == call.search.path
    IN /\ path[1] = call.start
       /\ path[Len(path)] = call.goal
       /\ \A i, j \in 1..Len(path) : path[i] = path[j] => i = j
       /\ \A i \in 1..Len(path) - 1 :
            /\ Has(edges, path[i])
            /\ path[i + 1] \in Nbrs(edges, path[i])

\* a path over all four nodes, one of its edges of weight 0
C28_Witness ==
  /\ IsSearch
  /\ Len(call.search.path) = 4
  /\ \E i \in 1..3 :
       Get(Get(edges, call.search.path[i]), call.search.path[i + 1]) = 0
  /\ call.search.distance > 0

\* start equal to goal and absent from the map: the sequence is start alone
C28_WitnessAlone ==
  /\ IsSearch
  /\ call.start = call.goal
  /\ ~Has(edges, call.start)
  /\ call.search.path = <<call.start>>

\* C30: dijkstra terminates for every finite adjacency map and every start
\* and goal, start or goal absent from the map, start equal to goal and an
\* unreachable goal included: the walk over the predecessors reaches start
\* within as many steps as the map has nodes, and the call returns either
\* the empty sequence with an infinite distance or a sequence of at most
\* one node more than the map has.
C30_SearchTerminates ==
  IsSearch =>
    /\ ~call.search.diverged
    /\ \/ call.search.path = << >> /\ call.search.distance = Infinity
       \/ /\ Len(call.search.path) \in 1..(Len(edges) + 1)
          /\ call.search.path[1] = call.start

\* a goal that is a node of the map, not reachable from a start that has
\* edges of its own
C30_Witness ==
  /\ IsSearch
  /\ Has(edges, call.start) /\ Has(edges, call.goal)
  /\ call.start # call.goal
  /\ Len(edges) = 4
  /\ call.search.path = << >>
  /\ ~call.search.diverged

\* a goal absent from the map, and a start absent from the map
C30_WitnessAbsentGoal ==
  /\ IsSearch
  /\ Has(edges, call.start) /\ ~Has(edges, call.goal)
  /\ call.search.path = << >>
C30_WitnessAbsentStart ==
  /\ IsSearch
  /\ ~Has(edges, call.start) /\ Has(edges, call.goal)
  /\ call.search.path = << >>

\* C29: when the origin is snapped onto an edge (a, b) and a route is
\* found, the node id sequence starts with the virtual node id and holds it
\* once, its second element is a or b, and the first point of the polyline
\* is the snapped coordinate: the route never starts at a or b instead,
\* although the direct edge (a, b) is kept.
C29_StartsAtVirtualNode ==
  (Succeeded /\ OnEdge) =>
    LET v == call.snap.nodeId
        path == call.result.pathNodeIds
    IN /\ StartsWithVirtual(v)
       /\ call.result.originNodeId = v
       /\ Len(path) >= 2
       /\ path[1] = v
       /\ Cardinality({i \in 1..Len(path) : path[i] = v}) = 1
       /\ path[2] \in {call.snap.attach.a, call.snap.attach.b}
       /\ call.result.polyline[1] = call.snap.coord
       /\ call.snap.attach.b \in Nbrs(call.g, call.snap.attach.a)

\* a route from a virtual node that leaves the edge through its second
\* end and goes on from there
C29_Witness ==
  /\ Succeeded
  /\ OnEdge
  /\ Len(call.result.pathNodeIds) >= 3
  /\ call.result.pathNodeIds[2] = call.snap.attach.b
  /\ call.result.polyline[1] # Get(nodes, call.snap.attach.a)
  /\ call.result.polyline[1] # Get(nodes, call.snap.attach.b)

\* the destination is an end of the edge snapped onto
C29_WitnessEnd ==
  /\ Succeeded
  /\ OnEdge
  /\ Len(call.result.pathNodeIds) = 2
  /\ call.result.pathNodeIds[2] = call.snap.attach.b
  /\ call.destNodeId = call.snap.attach.b

\* ------------------------------------------------------------------------
\* The callbacks of the parent
\* ------------------------------------------------------------------------
\* the sample of the fix passed the staleness, accuracy and jump gates
PassedGates ==
  Fresh /\ GoodAccuracy /\ (fix.before.lastRaw = NoLastRaw \/ ~TooFar)
\* the calls of onMove, of reportRaw, that the handler of the fix made
MoveCalls == SelectSeq(fix.calls, LAMBDA c : c.fn = "onMove")
RawCalls == SelectSeq(fix.calls, LAMBDA c : c.fn = "reportRaw")

\* C31: the handler of a sample calls reportRaw once, with the raw sample
\* and ahead of every gate, and calls onMove once, with the smoothed
\* coordinate of the sample, when the sample passes the staleness, accuracy
\* and jump gates, and not at all when a gate rejects it; handlers run one
\* after the other, so the calls follow the order of arrival.
C31_CallbacksPerSample ==
  IsFix =>
    /\ Len(fix.calls) >= 1
    /\ fix.calls[1] = ReportRawCall(fix.p.ll, fix.p.accuracy)
    /\ Len(RawCalls) = 1
    /\ IF PassedGates
         THEN /\ MoveCalls = <<OnMoveCall(fix.emitted)>>
              /\ fix.emitted # NoPos
              /\ mounted => pos = fix.emitted
         ELSE MoveCalls = << >>

\* an accepted sample that is smoothed: onMove gets the smoothed coordinate,
\* reportRaw the raw one
C31_Witness ==
  /\ IsFix
  /\ PassedGates
  /\ fix.before.lastRaw # NoLastRaw
  /\ Len(fix.calls) = 2
  /\ fix.calls[2].fn = "onMove"
  /\ fix.calls[2].ll # fix.calls[1].ll

\* a sample rejected by the jump guard: reportRaw alone is called
C31_WitnessRejected ==
  /\ Fresh /\ GoodAccuracy
  /\ fix.before.lastRaw # NoLastRaw
  /\ TooFar
  /\ Len(fix.calls) = 1

\* ------------------------------------------------------------------------
\* The jump guard lets go
\* ------------------------------------------------------------------------
\* C32: the jump guard does not lock the filter out for good.  Once a
\* sample has been accepted and the source reports from one other place,
\* fresh and accurate, with timestamps that grow, a sample from that
\* place is accepted in the end: the distance allowed grows with the time
\* since the last accepted raw sample, which a rejection leaves as it is.
C32_JumpGuardLetsGo ==
  (lastRawRef # NoLastRaw /\ lastRawRef.ll = JumpHome)
    ~> (Accepted /\ fix.p.ll = JumpAway /\ lastRawRef.ll = JumpAway)

\* a sample from the other place accepted five seconds or more after the
\* last accepted one, where the guard rejects it in the seconds before
C32_Witness ==
  /\ Accepted
  /\ fix.p.ll = JumpAway
  /\ fix.before.lastRaw.ll = JumpHome
  /\ SampleTime - fix.before.lastRaw.t >= 5 * MsPerSecond
  /\ lastRawRef.ll = JumpAway

\* a sample from the other place rejected by the jump guard, seconds after
\* the last accepted one
C32_WitnessRejected ==
  /\ IsFix
  /\ fix.verdict = "jump"
  /\ fix.p.ll = JumpAway
  /\ SampleTime - fix.before.lastRaw.t >= 3 * MsPerSecond
  /\ lastRawRef = fix.before.lastRaw


\* ------------------------------------------------------------------------
\* The shipped graph
\* ------------------------------------------------------------------------
\* the node ids registered as the entrance of a building
EntranceIds == {buildingEntrance[i][2] : i \in 1..Len(buildingEntrance)}

\* C33: once the shipped graph is loaded, every node registered as a building
\* entrance or a building exit has at least one edge and can be reached from
\* ENTRY, and a search from ENTRY to the entrance of a building returns a
\* path from ENTRY to that entrance.
C33_RegisteredNodesReachable ==
  Loaded =>
    /\ \A id \in ReferencedIds :
         Nbrs(edges, id) # {} /\ Reachable(edges, "ENTRY", id)
    /\ (IsSearch /\ call.start = "ENTRY" /\ call.goal \in EntranceIds) =>
         /\ ~call.search.diverged
         /\ Len(call.search.path) > 0
         /\ call.search.path[1] = "ENTRY"
         /\ call.search.path[Len(call.search.path)] = call.goal


\* ------------------------------------------------------------------------
\* LocationMapper: watch options and coordinate mapping
\* ------------------------------------------------------------------------
\* C34: the watch LocationMapper registers when it is mounted has the fast
\* options (enableHighAccuracy false), and every watch that a retry after a
\* TIMEOUT error registers has the high-accuracy options.
C34_FastThenHighAccuracy ==
  /\ component = "LocationMapper" =>
       \A w \in watches : ~w.options.enableHighAccuracy
  /\ [][(component = "LocationMapper" /\ fix'.op = "retry"
           /\ lastWatchId' = lastWatchId + 1) =>
          \A w \in watches' \ watches : w.options.enableHighAccuracy]_vars


\* the last handler run was onSuccess of LocationMapper and accepted its sample
MapperAccepted == component = "LocationMapper" /\ Accepted
\* the sample maps to a node other than the one of the current mapping
NodeChanged ==
  /\ fix.mapping # NoMapping
  /\ fix.mapping.nodeId # fix.before.currentMapping.nodeId

\* C35: an accepted sample makes LocationMapper call onLocationMapped and
\* append an entry to the mapping history only when it maps to a node other
\* than the one of the current mapping, so consecutive accepted samples that
\* map to one node cause at most one notification and one history entry.
C35_NotifiedOnlyOnChange ==
  MapperAccepted =>
    /\ fix.notified => NodeChanged
    /\ Len(mappingHistory) > Len(fix.before.mappingHistory) => NodeChanged

\* the tolerance in centimetres and the coordinate of a mapped node
ToleranceOf(nodeId) == Get(CoordinateMapping, nodeId).tolerance * CmPerMeter
RealGPSOf(nodeId) == Get(CoordinateMapping, nodeId).realGPS
\* a position lies within the tolerance of a mapped node
WithinTolerance(position, nodeId) ==
  CalculateDistance(position, RealGPSOf(nodeId)) <= ToleranceOf(nodeId)

\* C36: after an accepted sample that lies outside the tolerance of every
\* mapped node the current mapping is none, so that a mapping is current only
\* while the latest accepted position is within the tolerance of its node.
C36_MappingOnlyWithinTolerance ==
  (MapperAccepted /\ mounted) =>
    /\ (\A i \in 1..Len(CoordinateMapping) :
          ~WithinTolerance(pos, CoordinateMapping[i][1]))
         => currentMapping = NoMapping
    /\ currentMapping # NoMapping => WithinTolerance(pos, currentMapping.nodeId)

\* the entry a handler run appends to the history
EntryOf(f) ==
  [nodeId |-> f.mapping.nodeId, distance |-> f.mapping.distance,
   timestamp |-> f.clock, userPosition |-> f.emitted]
\* the last ten entries of a history
LastTen(h) == IF Len(h) <= 10 THEN h ELSE SubSeq(h, Len(h) - 9, Len(h))

\* C40: the mapping history never holds more than 10 entries, and it is the
\* last ten of the mappings in the order they arrived: a handler run that
\* maps appends its mapping at the end and only the oldest entry is dropped,
\* and nothing else changes the history.
C40_HistoryLastTen ==
  /\ [](Len(mappingHistory) <= 10)
  /\ [][IF fix'.op = "onSuccess" /\ fix'.notified /\ mounted
          THEN mappingHistory' = LastTen(Append(mappingHistory, EntryOf(fix')))
          ELSE mappingHistory' = mappingHistory]_vars

\* the history is full and a mapping to the other node has pushed the oldest
\* entry out
C40_Witness ==
  /\ MapperAccepted
  /\ Len(fix.before.mappingHistory) = 10
  /\ Len(mappingHistory) = 10
  /\ mappingHistory[10] = EntryOf(fix)
  /\ mappingHistory[10].nodeId # mappingHistory[9].nodeId
  /\ \A i \in 1..9 : mappingHistory[i] = fix.before.mappingHistory[i + 1]
  /\ fix.before.mappingHistory[1].nodeId # mappingHistory[1].nodeId


\* Navigating with the user within the arrival radius of the last polyline
\* point, which is the closest one
ArrivedNavigating ==
  /\ enhancedNavigator.mounted
  /\ enhancedNavigator.isNavigating
  /\ enhancedNavigator.currentRoute # NoRoute
  /\ enhancedNavigator.userPosition # NoPos
  /\ HasArrived(enhancedNavigator.userPosition, enhancedNavigator.currentRoute[1])

\* C37: EnhancedNavigator does not keep navigating for ever with the user
\* within 10 m of the last polyline point, that point being the closest one:
\* navigation stops (or the user leaves, or the route changes) again and
\* again, whatever position updates keep arriving.
C37_ArrivalStopsNavigation == []<>(~ArrivedNavigating)

\* C38: in every reachable state of EnhancedNavigator isNavigating = true
\* implies that currentRoute is not null.
C38_NavigatingHasRoute ==
  enhancedNavigator.mounted /\ enhancedNavigator.isNavigating
    => enhancedNavigator.currentRoute # NoRoute
\* navigation was started and runs on a route
C38_Witness ==
  /\ enhancedNavigator.mounted
  /\ enhancedNavigator.last = "handleStartNavigation"
  /\ enhancedNavigator.isNavigating
  /\ enhancedNavigator.currentRoute # NoRoute

\* the index of the last path coordinate
LastStep == Len(PathCoordinates) - 1

\* C39: after startWalking in PathTester currentStep starts at 0, grows by
\* one per tick and never exceeds the index of the last path coordinate; a
\* walk ends with isWalking = false; and while not walking (after the end,
\* after stopWalking) no interval is left and no tick takes a step.
C39_WalkStepsAndEnds ==
  /\ [](pathTester.mounted =>
          /\ pathTester.currentStep \in 0..LastStep
          /\ (pathTester.last = "startWalking" =>
                pathTester.isWalking /\ pathTester.currentStep = 0)
          /\ (~pathTester.isWalking => pathTester.intervals = {}))
  /\ [][/\ pathTester'.currentStep # pathTester.currentStep =>
             IF pathTester'.last = "tick"
               THEN pathTester'.currentStep = pathTester.currentStep + 1
               ELSE pathTester'.currentStep = 0
        /\ pathTester'.last = "tick" /\ pathTester.currentStep < LastStep =>
             pathTester'.currentStep = pathTester.currentStep + 1
        /\ pathTester'.last = "tick" \/ pathTester'.event # pathTester.event =>
             pathTester.isWalking]_vars
  /\ (pathTester.mounted /\ pathTester.isWalking
        ~> ~pathTester.mounted \/ ~pathTester.isWalking)
\* a walk went through every step and ended
C39_Witness ==
  /\ pathTester.mounted
  /\ pathTester.last = "tick"
  /\ pathTester.event.type = "completed"
  /\ ~pathTester.isWalking
  /\ pathTester.currentStep = LastStep
  /\ Len(pathTester.testResults) = LastStep
  /\ pathTester.intervals = {}

====
